---- MODULE Spec2Model ----
(***************************************************************************)
(* A model of gato: the content-addressed object store shared by several   *)
(* repositories, the add pipeline, the commit graph, the three-way tree    *)
(* merge and the cross-repository mark-and-sweep garbage collector.        *)
(*                                                                         *)
(* Byte strings are modelled by the values they encode; BLAKE3 is modelled *)
(* as an injective function (compute_hash wraps its argument).  A commit's *)
(* message, author, e-mail and timestamp are held fixed: all commits are   *)
(* made by one author within one second.  A Vec<String> of dependencies is *)
(* modelled by the set of its elements (the code only tests membership).   *)
(*                                                                         *)
(* Twelve specifications share the variables:                             *)
(*   Spec       every command is one step and every file-system write      *)
(*              succeeds;                                                  *)
(*   SpecQuiet  as Spec, with gc run only while no repository has an index;*)
(*   SpecSave   commit is taken step by step (Commit::new, put, write_ref, *)
(*              remove the index), the put may fail and the process may    *)
(*              die between two steps;                                     *)
(*   SpecPut    LocalStorage::put is taken system call by system call, a   *)
(*              write may fail and the process may die between two calls.  *)
(*   SpecAdd    add and commit as one step each, reading the files of a    *)
(*              working directory the user may rewrite, with puts that may *)
(*              fail;                                                      *)
(*   SpecCheckout  add, commit and checkout in two repositories with       *)
(*              different codecs over the same files;                      *)
(*   SpecBranch edit, add, commit, new-branch, change-branch, delete-branch*)
(*              and merge in one repository, each recording its result;    *)
(*   SpecMerge  Tree::merge applied to three root trees drawn from a       *)
(*              bounded set;                                               *)
(*   SpecRace   LocalStorage::put run step by step by two writers at once, *)
(*              with a reader of the store;                                *)
(*   SpecReset  SpecBranch's repository with soft-reset in place of        *)
(*              delete-branch;                                             *)
(*   SpecStage  adds of one path at a time and commits in a working        *)
(*              directory where a file is replaced by a directory;         *)
(*   SpecVfs    add, commit and mount, then the callbacks of the mounted   *)
(*              filesystem: readdir, lookup, getattr, open and read.       *)
(***************************************************************************)
EXTENDS Integers, Sequences, FiniteSets, TLC

VARIABLES
  store,     \* objects/<aa>/<rest>: hash -> bytes of the object file
  config,    \* per repository: the codec of gato.toml, or NoConfig once deleted
  head,      \* per repository: the branch HEAD names (master while the file is absent)
  refs,      \* per repository: refs/heads/<branch> -> commit hash
  index,     \* per repository: the persisted Index, or NoIndex when the file is absent
  nAdds,     \* number of add calls made so far
  nCommits,  \* number of commit and merge calls made so far
  pc,        \* per repository: the step a running commit is at, or "idle"
  pending,   \* per repository: the commit a running Commit::save holds
  orphan,    \* per repository: the commit its last save had created and not published
             \* when its process died (history)
  wr,        \* the put call in progress, or NoPut
  first,     \* per hash: the bytes of the first put that wrote it since its last remove (history)
  lastPut,   \* the last put call that returned or died (history)
  work,      \* per repository: the files of its working directory, path -> content
  ret,       \* what the last add or checkout returned (history)
  gatofs,    \* the mounted GatoFS (inodes, next, loaded), or NotMounted
  writers    \* per concurrent writer: the put call it is running or has run

repoVars == <<config, head, refs, index, nAdds, nCommits>>
saveVars == <<pc, pending, orphan>>
putVars == <<wr, first, lastPut>>
cmdVars == <<work, ret>>
procVars == <<gatofs, writers>>
vars == <<store, repoVars, saveVars, putVars, cmdVars, procVars>>

(***************************************************************************)
(* Bounds of the model.                                                    *)
(***************************************************************************)
MaxAdds == 3
MaxCommits == 4
MaxReset == 2
MaxFiles == 1

Repos == {1, 2}
\* The repositories whose user works with branches, and those a user deletes.
BranchingRepos == {2}
DeletedRepos == {1}
Branches == {"master", "b"}
NoConfig == "NoConfig"
NoIndex == [absent |-> TRUE]

\* File names in byte order, as BTreeMap<String, _> and BTreeMap<PathBuf, _> iterate.
NameOrder == <<"a", "b", "d">>
Paths == {<<"a">>, <<"d", "b">>}

\* Raw file contents: a sequence of blocks.  A file of LargeLen blocks or more
\* stands for a file at or above the 8 MiB threshold of add_all.
LargeLen == 2
RawA == [raw |-> <<1>>]
RawB == [raw |-> <<2>>]
RawBig == [raw |-> <<1, 2>>]
\* The working-directory files an add may find: (path, content).
Files == {<<(<<"a">>), RawA>>, <<(<<"d", "b">>), RawBig>>}
\* A working directory that holds the files fs.
WorkingDir(fs) == [p \in {f[1] : f \in fs} |-> (CHOOSE f \in fs : f[1] = p)[2]]
\* What stat reports besides the size: the age of the file in seconds at the time
\* of the add, and its mode bits.
StatNow == [mtime |-> 0, mode |-> 420]
StatLater == [mtime |-> 1, mode |-> 493]

(***************************************************************************)
(* Helpers on sets and sequences.                                          *)
(***************************************************************************)
Range(s) == {s[i] : i \in DOMAIN s}

RECURSIVE SetToSeq(_)
SetToSeq(S) == IF S = {} THEN <<>>
               ELSE LET x == CHOOSE y \in S : TRUE IN <<x>> \o SetToSeq(S \ {x})

RECURSIVE Flatten(_)
Flatten(ss) == IF ss = <<>> THEN <<>> ELSE Head(ss) \o Flatten(Tail(ss))

NameRank(n) == CHOOSE i \in DOMAIN NameOrder : NameOrder[i] = n
NameLess(x, y) == NameRank(x) < NameRank(y)

RECURSIVE PathLess(_, _)
PathLess(p, q) ==
  IF p = <<>> THEN q # <<>>
  ELSE IF q = <<>> THEN FALSE
  ELSE IF Head(p) = Head(q) THEN PathLess(Tail(p), Tail(q))
  ELSE NameLess(Head(p), Head(q))

(***************************************************************************)
(* Hashing, compression and the encodings of the stored objects.           *)
(***************************************************************************)
compute_hash(bytes) == [h |-> bytes]

compress(codec, data) == [codec |-> codec, plain |-> data]

BlobNormal(compressed) == [tag |-> "Normal", content |-> compressed]
BlobChunksMap(hashes) == [tag |-> "ChunksMap", path |-> hashes]

TreeEntryBlob(name, hash) == [kind |-> "Blob", name |-> name, hash |-> hash]
TreeEntryTree(name, hash) == [kind |-> "Tree", name |-> name, hash |-> hash]
Tree(name, entries) == [tag |-> "Tree", name |-> name, entries |-> entries]

None == <<>>
Some(x) == <<x>>

CommitV1(tree_hash, parent_hash, dependencies) ==
  [tag |-> "V1", tree_hash |-> tree_hash, parent_hash |-> parent_hash,
   dependencies |-> dependencies]

MergedCommitV1(tree_hash, parent_hash1, parent_hash2, dependencies) ==
  [tag |-> "MergedCommitV1", tree_hash |-> tree_hash, parent_hash1 |-> parent_hash1,
   parent_hash2 |-> parent_hash2, dependencies |-> dependencies]

Tag(bytes) == IF "tag" \in DOMAIN bytes THEN bytes.tag ELSE "untagged"
IsCommit(bytes) == Tag(bytes) \in {"V1", "MergedCommitV1"}
IsTree(bytes) == Tag(bytes) = "Tree"

\* Commit::parent_hash: the single traversal parent.
parent_hash(commit) ==
  IF commit.tag = "V1" THEN commit.parent_hash ELSE Some(commit.parent_hash1)

(***************************************************************************)
(* The object store.                                                       *)
(***************************************************************************)
exist(st, hash) == hash \in DOMAIN st

\* A put that writes whether or not the object file exists.
always_write(st, hash) == TRUE

\* The test of LocalStorage::put: `if !self.exist(hash)`.
must_write(st, hash) == ~exist(st, hash)

\* LocalStorage::put: write only when the object file does not exist.
put(st, hash, data) == IF must_write(st, hash) THEN (hash :> data) @@ st ELSE st

RECURSIVE put_all(_, _)
put_all(st, objs) ==
  IF objs = <<>> THEN st
  ELSE put_all(put(st, Head(objs)[1], Head(objs)[2]), Tail(objs))

\* LocalStorage::get_active_branche: HEAD's content, "master" when it cannot be read.
get_active_branche(r) == head[r]

(***************************************************************************)
(* The add pipeline.  Each operator returns the store after its writes,    *)
(* the content hash of the index entry and the dependencies it reports.    *)
(***************************************************************************)
\* add_file: the small-file path.  The key is the hash of the raw bytes; the
\* object written is the encoded Blob::Normal of the compressed bytes.
add_file(st, codec, buffer) ==
  LET hash == compute_hash(buffer) IN
  [store |-> IF ~exist(st, hash)
             THEN put(st, hash, BlobNormal(compress(codec, buffer)))
             ELSE st,
   hash |-> hash,
   deps |-> {hash}]

\* cut: the content-defined chunker, one chunk per block.
cut(buffer) == [i \in 1..Len(buffer.raw) |-> [raw |-> <<buffer.raw[i]>>]]

\* A chunker that keys a chunk by its content and its position in the file.
process_chunk_by_position(st, codec, chunks) ==
  LET ordered == [i \in 1..Len(chunks) |-> compute_hash([raw |-> chunks[i].raw, at |-> i])]
      fresh == {i \in 1..Len(chunks) : ~exist(st, ordered[i])}
  IN [chunks |-> {<<ordered[i], compress(codec, chunks[i])>> : i \in fresh},
      ordered_hashes |-> ordered]

\* process_chunk: hash every chunk; compress those absent from the store.
process_chunk(st, codec, chunks) ==
  LET ordered == [i \in 1..Len(chunks) |-> compute_hash(chunks[i])]
      fresh == {i \in 1..Len(chunks) : ~exist(st, ordered[i])}
  IN [chunks |-> {<<ordered[i], compress(codec, chunks[i])>> : i \in fresh},
      ordered_hashes |-> ordered]

\* ChunkerResult::save_chunks: put every fresh chunk under the hash of its raw bytes.
save_chunks(st, result) == put_all(st, SetToSeq(result.chunks))

\* add_as_chunk: the large-file path.
add_as_chunk(st, codec, buffer) ==
  LET chunker_result == process_chunk(st, codec, cut(buffer))
      st1 == save_chunks(st, chunker_result)
      file_data == BlobChunksMap(chunker_result.ordered_hashes)
      file_hash == compute_hash(file_data)
  IN [store |-> put(st1, file_hash, file_data),
      hash |-> file_hash,
      deps |-> Range(chunker_result.ordered_hashes) \cup {file_hash}]

\* The closure of add_all's par_iter: choose the path by the file's length.
add_one(st, codec, buffer) ==
  IF Len(buffer.raw) < LargeLen THEN add_file(st, codec, buffer)
  ELSE add_as_chunk(st, codec, buffer)

\* Index::load(..).unwrap_or(Index::new())
IndexNew == [entries |-> <<>>, dependencies |-> {}]
index_load_or_new(ix) == IF ix = NoIndex THEN IndexNew ELSE ix

\* The IndexEntry add_file and add_as_chunk emit for a file.
IndexEntry(hash, buffer, stat) ==
  [hash |-> hash, size |-> Len(buffer.raw), mtime |-> stat.mtime, mode |-> stat.mode]

\* Index::add_entry followed by index.dependencies.extend(deps)
index_add(ix, path, entry, deps) ==
  [entries |-> (path :> entry) @@ ix.entries,
   dependencies |-> ix.dependencies \cup deps]

\* add_all over the files fs (a sequence of <<path, content>>): the state after
\* every file has been processed and the index saved.
RECURSIVE add_all(_, _, _, _)
add_all(st, ix, codec, fs) ==
  IF fs = <<>> THEN [store |-> st, index |-> ix]
  ELSE LET res == add_one(st, codec, Head(fs)[2])
       IN add_all(res.store,
                  index_add(ix, Head(fs)[1],
                            IndexEntry(res.hash, Head(fs)[2], StatNow), res.deps),
                  codec, Tail(fs))

\* The inputs of one add call: a non-empty set of files with distinct paths.
AddInputs == {fs \in SUBSET Files : Cardinality(fs) \in 1..MaxFiles /\ \A f, g \in fs : f[1] = g[1] => f = g}

(***************************************************************************)
(* The tree builder.                                                       *)
(***************************************************************************)
\* A builder that takes the whole IndexEntry of every path into the tree.
index_entries_with_stat(ix) ==
  LET paths == SortSeq(SetToSeq(DOMAIN ix.entries), PathLess)
  IN [i \in 1..Len(paths) |-> <<paths[i], ix.entries[paths[i]]>>]

\* A builder that is handed the first entry of the index only.
index_entries_of_first(ix) ==
  LET paths == SortSeq(SetToSeq(DOMAIN ix.entries), PathLess)
  IN [i \in 1..(IF paths = <<>> THEN 0 ELSE 1) |-> <<paths[i], ix.entries[paths[i]].hash>>]

\* index.entries.into_iter().map(|(path, entry)| (path, entry.hash)): the
\* (path, hash) pairs in the BTreeMap's order.
index_entries(ix) ==
  LET paths == SortSeq(SetToSeq(DOMAIN ix.entries), PathLess)
  IN [i \in 1..Len(paths) |-> <<paths[i], ix.entries[paths[i]].hash>>]

SortedNames(S) == SortSeq(SetToSeq(S), NameLess)

\* Tree::build_recursive_tree: the tree built for `entries` under `name`, with the
\* trees saved on the way (the built tree last).  Blob entries come first, in the
\* order of `entries`; one Tree entry per group follows, in the order of the names.
RECURSIVE build_recursive_tree(_, _)
build_recursive_tree(entries, name) ==
  LET leaves == SelectSeq(entries, LAMBDA e : Len(e[1]) = 1)
      nested == SelectSeq(entries, LAMBDA e : Len(e[1]) > 1)
      groups == SortedNames({nested[i][1][1] : i \in DOMAIN nested})
      sub_entries(n) ==
        LET mine == SelectSeq(nested, LAMBDA e : e[1][1] = n)
        IN [i \in 1..Len(mine) |-> <<Tail(mine[i][1]), mine[i][2]>>]
      subs == [i \in 1..Len(groups) |-> build_recursive_tree(sub_entries(groups[i]), groups[i])]
      current_tree ==
        Tree(name,
             [i \in 1..Len(leaves) |-> TreeEntryBlob(leaves[i][1][1], leaves[i][2])]
             \o [i \in 1..Len(groups) |->
                   TreeEntryTree(groups[i], compute_hash(subs[i].tree))])
  IN [tree |-> current_tree,
      saved |-> Flatten([i \in 1..Len(groups) |-> subs[i].saved]) \o <<current_tree>>]

\* Tree::save for each tree of a build: put under the hash of the tree's bytes.
save_trees(st, trees) ==
  put_all(st, [i \in 1..Len(trees) |-> <<compute_hash(trees[i]), trees[i]>>])

\* A builder that reports the index's dependencies only, leaving out the hashes
\* of the trees it saved.
create_from_index_without_trees(ix) ==
  LET built == build_recursive_tree(index_entries(ix), "root")
  IN [tree_hash |-> compute_hash(built.tree),
      dependencies |-> ix.dependencies,
      saved |-> built.saved]

\* Tree::create_from_index: (root tree hash, dependencies) and the trees to save.
create_from_index(ix) ==
  LET built == build_recursive_tree(index_entries(ix), "root")
  IN [tree_hash |-> compute_hash(built.tree),
      dependencies |-> ix.dependencies \cup {compute_hash(t) : t \in Range(built.saved)},
      saved |-> built.saved]

(***************************************************************************)
(* The commit graph.                                                       *)
(***************************************************************************)
\* LocalStorage::read_ref_vec(..).ok()
read_ref(r, branch) == IF branch \in DOMAIN refs[r] THEN Some(refs[r][branch]) ELSE None

\* Commit::get_parent_hash
get_parent_hash(r) == read_ref(r, get_active_branche(r))

\* A Commit::new that takes the tip of master as parent, whatever HEAD names.
commit_new_on_master(r) ==
  LET built == create_from_index(index[r])
  IN [commit |-> CommitV1(built.tree_hash, read_ref(r, "master"), built.dependencies),
      saved |-> built.saved]

\* Commit::new: the V1 commit of the persisted index and the trees it saves.
commit_new(r) ==
  LET built == create_from_index(index[r])
  IN [commit |-> CommitV1(built.tree_hash, get_parent_hash(r), built.dependencies),
      saved |-> built.saved]

\* Commit::load: defined when the object exists and decodes as a commit.
can_load(st, hash) == exist(st, hash) /\ IsCommit(st[hash])

\* Walking parent_hash() from `hash` to the root loads every commit on the way.
RECURSIVE chain_ok(_, _)
chain_ok(st, hash) ==
  /\ can_load(st, hash)
  /\ LET p == parent_hash(st[hash]) IN IF p = None THEN TRUE ELSE chain_ok(st, p[1])

\* The hashes on the parent_hash() chain that starts at `hash`, tip first.
RECURSIVE chain(_, _)
chain(st, hash) ==
  LET p == parent_hash(st[hash])
  IN <<hash>> \o (IF p = None THEN <<>> ELSE chain(st, p[1]))

\* An ancestor list that starts at the commit itself.
parents_hashes_with_self(st, hash) == chain(st, hash)

\* Commit::parents_hashes: the chain without its tip.
parents_hashes(st, hash) == Tail(chain(st, hash))

\* A walk that stops at the root commit when the chain is shorter than n.
RECURSIVE walk_back_to_root(_, _, _)
walk_back_to_root(st, hash, n) ==
  IF n = 0 THEN Some(hash)
  ELSE LET p == parent_hash(st[hash])
       IN IF p = None THEN Some(hash) ELSE walk_back_to_root(st, p[1], n - 1)

\* Commit::get_hash_from_index: n steps back from the active tip.
RECURSIVE walk_back(_, _, _)
walk_back(st, hash, n) ==
  IF n = 0 THEN Some(hash)
  ELSE LET p == parent_hash(st[hash])
       IN IF p = None THEN None ELSE walk_back(st, p[1], n - 1)

get_hash_from_index(st, r, n) ==
  LET tip == get_parent_hash(r)
  IN IF tip = None THEN None ELSE walk_back(st, tip[1], n)

(***************************************************************************)
(* The three-way merge.                                                    *)
(***************************************************************************)
\* Tree::get_entry: the first entry called `name`, if any.
get_entry(tree, name) ==
  LET hits == SelectSeq(tree.entries, LAMBDA e : e.name = name)
  IN IF hits = <<>> THEN None ELSE Some(hits[1])

\* Tree::get_entry_hash
get_entry_hash(tree, name) ==
  LET e == get_entry(tree, name) IN IF e = None THEN None ELSE Some(e[1].hash)

\* Tree::load: defined when the object exists and decodes as a tree.
can_load_tree(st, hash) == exist(st, hash) /\ IsTree(st[hash])

\* decompress under the repository's codec: fails on bytes of the other codec.
can_decompress(codec, compressed) == compressed.codec = codec
decompress(compressed) == compressed.plain

\* get_as_string: the text of a Normal blob, None when it cannot be read.
get_as_string(st, codec, hash) ==
  IF exist(st, hash) /\ Tag(st[hash]) = "Normal"
  THEN IF can_decompress(codec, st[hash].content)
       THEN Some(decompress(st[hash].content)) ELSE None
  ELSE None

\* The line-wise three-way text merge (diffy::merge).  Lines taken by one side
\* only are merged; a line changed by both sides is a conflict, and the result
\* then carries both versions between conflict markers (negative numbers).
ConflictOpen == 0 - 1
ConflictMid == 0 - 2
ConflictClose == 0 - 3
text_merge(base, cur, tgt) ==
  LET n == Len(cur.raw)
      b(i) == IF i \in DOMAIN base.raw THEN base.raw[i] ELSE 0
      clean == /\ Len(tgt.raw) = n
               /\ \A i \in 1..n : cur.raw[i] = tgt.raw[i] \/ cur.raw[i] = b(i)
                                    \/ tgt.raw[i] = b(i)
  IN IF clean
     THEN [ok |-> TRUE,
           text |-> [raw |-> [i \in 1..n |-> IF cur.raw[i] = b(i) THEN tgt.raw[i]
                                              ELSE cur.raw[i]]]]
     ELSE [ok |-> FALSE,
           text |-> [raw |-> <<ConflictOpen>> \o cur.raw \o <<ConflictMid>>
                               \o tgt.raw \o <<ConflictClose>>]]

\* add_file_dry: stage bytes as a small file and return the blob's hash.
add_file_dry(st, codec, buffer) == add_file(st, codec, buffer)

\* The error of a failed Tree::load (`?` on a storage error).
StorageError == [kind |-> "StorageError"]

\* Tree::merge.  The accumulator carries the entries and dependencies collected
\* so far and the store after the writes made so far, also when the merge fails.
merge_fail(acc) == [acc EXCEPT !.ok = FALSE]

\* Err(Error::MergeConflict(..)): the message names the entry.
MergeConflict(name) == [kind |-> "MergeConflict", name |-> name]
merge_conflict(acc, name) == [acc EXCEPT !.ok = FALSE, !.error = MergeConflict(name)]

\* The rules c == t, c == b and t == b: keep one side's entry, if it has one.
merge_keep(acc, e) ==
  IF e = None THEN acc
  ELSE [acc EXCEPT !.entries = Append(@, e[1]), !.deps = @ \cup {e[1].hash}]

\* Both sides changed a Blob: the merged text m is staged and takes the entry.
merge_staged(acc, name, m, staged) ==
  [acc EXCEPT !.entries = Append(@, TreeEntryBlob(name, staged.hash)),
              !.deps = @ \cup {staged.hash},
              !.store = staged.store,
              !.conflicts = @ \cup (IF m.ok THEN {} ELSE {name})]

\* A both-changed Blob rule that fails the merge when the texts conflict.
merge_text_strict(acc, name, m, codec) ==
  IF m.ok THEN merge_staged(acc, name, m, add_file_dry(acc.store, codec, m.text))
  ELSE merge_conflict(acc, name)

merge_text(acc, name, m, codec) ==
  merge_staged(acc, name, m, add_file_dry(acc.store, codec, m.text))

merge_blobs(acc, name, bf, cf, tf, codec) ==
  IF cf = None THEN merge_conflict(acc, name)
  ELSE IF tf = None THEN merge_conflict(acc, name)
  ELSE merge_text(acc, name,
                  text_merge(IF bf = None THEN [raw |-> <<>>] ELSE bf[1], cf[1], tf[1]),
                  codec)

\* Both sides changed a Tree: the entry is the merge of the two subtrees.
merge_sub(acc, sub) ==
  IF ~sub.ok THEN [acc EXCEPT !.ok = FALSE, !.store = sub.store, !.error = sub.error]
  ELSE [acc EXCEPT !.entries = Append(@, TreeEntryTree(sub.tree.name, compute_hash(sub.tree))),
                   !.deps = @ \cup sub.deps \cup {compute_hash(sub.tree)},
                   !.store = sub.store,
                   !.conflicts = @ \cup sub.conflicts]

base_is_tree(be) == IF be = None THEN FALSE ELSE be[1].kind = "Tree"

\* The result of Tree::merge once every name has been handled: the merged tree
\* takes current's name and is saved.
merge_result(acc, name) ==
  IF ~acc.ok THEN [ok |-> FALSE, store |-> acc.store, error |-> acc.error]
  ELSE [ok |-> TRUE, tree |-> Tree(name, acc.entries), deps |-> acc.deps,
        store |-> put(acc.store, compute_hash(Tree(name, acc.entries)),
                      Tree(name, acc.entries)),
        conflicts |-> acc.conflicts]

all_filenames(base, current, target) ==
  {e.name : e \in Range(current.entries)}
    \cup {e.name : e \in Range(target.entries)}
    \cup {e.name : e \in Range(base.entries)}

RECURSIVE tree_merge(_, _, _, _, _, _)
RECURSIVE merge_names(_, _, _, _, _, _, _)

merge_trees(acc, name, be, ce, te, codec, order) ==
  IF ~can_load_tree(acc.store, ce[1].hash) THEN merge_fail(acc)
  ELSE IF ~can_load_tree(acc.store, te[1].hash) THEN merge_fail(acc)
  ELSE IF ~base_is_tree(be)
  THEN merge_sub(acc, tree_merge(Tree(name, <<>>), acc.store[ce[1].hash],
                                 acc.store[te[1].hash], acc.store, codec, order))
  ELSE IF ~can_load_tree(acc.store, be[1].hash) THEN merge_fail(acc)
  ELSE merge_sub(acc, tree_merge(acc.store[be[1].hash], acc.store[ce[1].hash],
                                 acc.store[te[1].hash], acc.store, codec, order))

\* A both-changed rule that keeps current's entry, whatever its kind.
merge_both_keep_current(acc, name, b, be, ce, te, codec, order) ==
  merge_keep(acc, ce)

\* The both-changed rule: a text merge of two Blobs, a recursive merge of two
\* Trees, a conflict otherwise (one side absent, or a Blob against a Tree).
merge_both(acc, name, b, be, ce, te, codec, order) ==
  IF ce = None THEN merge_conflict(acc, name)
  ELSE IF te = None THEN merge_conflict(acc, name)
  ELSE IF ce[1].kind = "Blob" /\ te[1].kind = "Blob"
  THEN merge_blobs(acc, name,
                   IF b = None THEN None ELSE get_as_string(acc.store, codec, b[1]),
                   get_as_string(acc.store, codec, ce[1].hash),
                   get_as_string(acc.store, codec, te[1].hash), codec)
  ELSE IF ce[1].kind = "Tree" /\ te[1].kind = "Tree"
  THEN merge_trees(acc, name, be, ce, te, codec, order)
  ELSE merge_conflict(acc, name)

\* A resolution that keeps current's entry for every name.
merge_entry_keep_current(acc, name, b, c, t, be, ce, te, codec, order) ==
  merge_keep(acc, ce)

merge_entry(acc, name, b, c, t, be, ce, te, codec, order) ==
  IF c = t THEN merge_keep(acc, ce)
  ELSE IF c = b THEN merge_keep(acc, te)
  ELSE IF t = b THEN merge_keep(acc, ce)
  ELSE merge_both(acc, name, b, be, ce, te, codec, order)

\* The loop of Tree::merge over the names, in the order the HashSet yields them.
merge_names(acc, names, base, current, target, codec, order) ==
  IF names = <<>> THEN acc
  ELSE IF ~acc.ok THEN acc
  ELSE merge_names(merge_entry(acc, Head(names),
                               get_entry_hash(base, Head(names)),
                               get_entry_hash(current, Head(names)),
                               get_entry_hash(target, Head(names)),
                               get_entry(base, Head(names)),
                               get_entry(current, Head(names)),
                               get_entry(target, Head(names)), codec, order),
                   Tail(names), base, current, target, codec, order)

tree_merge(base, current, target, st, codec, order) ==
  merge_result(
    merge_names([ok |-> TRUE, entries |-> <<>>, deps |-> {}, store |-> st, conflicts |-> {},
                 error |-> StorageError],
                SelectSeq(order, LAMBDA n : n \in all_filenames(base, current, target)),
                base, current, target, codec, order),
    current.name)

\* A base search that returns the oldest common ancestor.
base_oldest(st, hash_a, hash_b) ==
  LET parents == parents_hashes(st, hash_a)
      parents_b == parents_hashes(st, hash_b)
      common == SelectSeq(parents_b, LAMBDA x : x \in Range(parents))
  IN IF common = <<>> THEN None ELSE Some(common[Len(common)])

\* Commit::base: the first of commit_b's ancestors that is an ancestor of commit_a.
base(st, hash_a, hash_b) ==
  LET parents == parents_hashes(st, hash_a)
      parents_b == parents_hashes(st, hash_b)
      common == SelectSeq(parents_b, LAMBDA x : x \in Range(parents))
  IN IF common = <<>> THEN None ELSE Some(common[1])

\* The orders in which a HashSet of entry names may be iterated.
NameOrders == {p \in [1..Len(NameOrder) -> Range(NameOrder)] : Range(p) = Range(NameOrder)}

(***************************************************************************)
(* The garbage collector.                                                  *)
(***************************************************************************)
\* LocalStorage::list_branchs
list_branchs(r) == DOMAIN refs[r]

\* The repositories of the registry whose configuration loads (gc's load_from(..).ok()).
loaded_repos == {r \in Repos : config[r] # NoConfig}

\* A mark that takes the tip of every branch and none of its ancestors.
list_tips_hashs(st, r) == {refs[r][b] : b \in list_branchs(r)}

\* Gc::list_commits_hashs: the commits on the parent_hash() chain of every branch.
list_commits_hashs(st, r) ==
  UNION {Range(chain(st, refs[r][b])) : b \in list_branchs(r)}

\* Gc::repo_dependices: the chains' commits and their dependencies lists.
repo_dependices(st, r) ==
  list_commits_hashs(st, r)
    \cup UNION {st[c].dependencies : c \in list_commits_hashs(st, r)}

\* Gc::global_dependices: the live set.
global_dependices(st) == UNION {repo_dependices(st, r) : r \in loaded_repos}

\* Every chain gc walks can be loaded (Commit::load panics otherwise).
gc_can_mark(st) ==
  \A r \in loaded_repos : \A b \in list_branchs(r) : chain_ok(st, refs[r][b])

\* A sweep that spares every commit object.
gc_sweep_sparing_commits(st) ==
  LET live == global_dependices(st)
  IN [k \in {x \in DOMAIN st : x \in live \/ IsCommit(st[x])} |-> st[k]]

\* The sweep of LocalStorage::gc: remove every object that is not in the live set.
gc_sweep(st) ==
  LET live == global_dependices(st)
  IN [k \in {x \in DOMAIN st : x \in live} |-> st[k]]

(***************************************************************************)
(* The commands of a repository.                                           *)
(***************************************************************************)
NoPending == [none |-> TRUE]
NoPut == [step |-> "idle"]
NotMounted == [mounted |-> FALSE]
\* The threads or processes that may run put at the same time.
Writers == {1, 2}
NoResult == [result |-> "none"]

\* The (hash, bytes) pairs put is called with in SpecPut: add_file's key is the
\* hash of the raw content and its bytes depend on the codec of the repository;
\* process_chunk stores the bare compressed chunk under the hash of the raw chunk.
PutCalls ==
  {<<compute_hash(raw), BlobNormal(compress(codec, raw))>> :
      raw \in {RawA, RawB}, codec \in {"Zlib", "Zstd"}}
    \cup {<<compute_hash(raw), compress("Zstd", raw)>> : raw \in {RawA, RawB}}
PutHashes == {c[1] : c \in PutCalls}

\* The state after gato init in every repository, dirs[r] being the working
\* directory of repository r.
InitWith(dirs) ==
  /\ store = <<>>
  /\ config = (1 :> "Zlib") @@ (2 :> "Zstd")
  /\ head = [r \in Repos |-> "master"]
  /\ refs = [r \in Repos |-> <<>>]
  /\ index = [r \in Repos |-> NoIndex]
  /\ nAdds = 0
  /\ nCommits = 0
  /\ pc = [r \in Repos |-> "idle"]
  /\ pending = [r \in Repos |-> NoPending]
  /\ orphan = [r \in Repos |-> None]
  /\ wr = NoPut
  /\ first = [h \in PutHashes |-> None]
  /\ lastPut = NoResult
  /\ work = dirs
  /\ ret = NoResult
  /\ gatofs = NotMounted
  /\ writers = [w \in Writers |-> NoPut]

Init == InitWith([r \in Repos |-> WorkingDir(Files)])

\* A command starts in a repository whose configuration loads and where no
\* other command is running.
can_run(r) == config[r] # NoConfig /\ pc[r] = "idle"

\* gato add: LocalStorage::add_paths, add_all.
Add(r, fs) ==
  /\ can_run(r)
  /\ nAdds < MaxAdds
  /\ LET res == add_all(store, index_load_or_new(index[r]), config[r], SetToSeq(fs))
     IN /\ store' = res.store
        /\ index' = [index EXCEPT ![r] = res.index]
  /\ nAdds' = nAdds + 1
  /\ UNCHANGED <<config, head, refs, nCommits, saveVars, putVars, procVars, cmdVars>>

\* A save that writes the ref first.
save_steps_ref_first == <<"write_ref", "put">>

\* Commit::save: the order of its two writes.
save_steps == <<"put", "write_ref">>

\* The step that follows step s of Commit::save; LocalStorage::commit removes the
\* index file once save has returned.
after_save_step(s) == IF s = save_steps[1] THEN save_steps[2] ELSE "remove_file"

\* The ref write of Commit::save.
write_ref(r, hash) == [refs EXCEPT ![r] = (get_active_branche(r) :> hash) @@ refs[r]]

\* gato commit as one step: Commit::new, Commit::save (put, then write_ref), remove
\* the index.  Commit::new panics when the index does not load.
Commit(r) ==
  /\ can_run(r)
  /\ index[r] # NoIndex
  /\ nCommits < MaxCommits
  /\ LET new == commit_new(r)
         hash == compute_hash(new.commit)
     IN /\ store' = put(save_trees(store, new.saved), hash, new.commit)
        /\ refs' = write_ref(r, hash)
  /\ index' = [index EXCEPT ![r] = NoIndex]
  /\ nCommits' = nCommits + 1
  /\ UNCHANGED <<config, head, nAdds, saveVars, putVars, procVars, cmdVars>>

\* gato new-branch: copy the active branch's tip (a read error when it has none).
NewBranch(r, name) ==
  /\ can_run(r)
  /\ get_parent_hash(r) # None
  /\ refs' = [refs EXCEPT ![r] = (name :> get_parent_hash(r)[1]) @@ refs[r]]
  /\ UNCHANGED <<store, config, head, index, nAdds, nCommits, saveVars, putVars, procVars, cmdVars>>

\* gato change-branch: rewrite HEAD.
ChangeBranch(r, name) ==
  /\ can_run(r)
  /\ head' = [head EXCEPT ![r] = name]
  /\ UNCHANGED <<store, config, refs, index, nAdds, nCommits, saveVars, putVars, procVars, cmdVars>>

\* gato delete-branch: refused for the active branch; an I/O error when absent.
DeleteBranch(r, name) ==
  /\ can_run(r)
  /\ name # get_active_branche(r)
  /\ name \in DOMAIN refs[r]
  /\ refs' = [refs EXCEPT ![r] = [b \in DOMAIN refs[r] \ {name} |-> refs[r][b]]]
  /\ UNCHANGED <<store, config, head, index, nAdds, nCommits, saveVars, putVars, procVars, cmdVars>>

\* gato soft-reset: move the active ref n steps back; nothing when the chain is shorter.
SoftReset(r, n) ==
  /\ can_run(r)
  /\ get_parent_hash(r) # None
  /\ chain_ok(store, get_parent_hash(r)[1])
  /\ LET hash == get_hash_from_index(store, r, n)
     IN /\ hash # None
        /\ refs' = write_ref(r, hash[1])
  /\ UNCHANGED <<store, config, head, index, nAdds, nCommits, saveVars, putVars, procVars, cmdVars>>

\* gato gc: mark from every repository that loads, then sweep.  It is a maintenance
\* command: no other command is running.
Gc ==
  /\ \A r \in Repos : pc[r] = "idle"
  /\ gc_can_mark(store)
  /\ store' = gc_sweep(store)
  /\ UNCHANGED <<repoVars, saveVars, putVars, procVars, cmdVars>>

\* gc run while no repository that loads has staged files.
GcQuiet ==
  /\ \A r \in loaded_repos : index[r] = NoIndex
  /\ Gc

\* gato delete-repo: gato.toml is removed; remove_dir of the repository's directory
\* then fails, the directory holding refs/, so the refs, HEAD and the index stay.
DeleteRepo(r) ==
  /\ can_run(r)
  /\ config' = [config EXCEPT ![r] = NoConfig]
  /\ UNCHANGED <<store, head, refs, index, nAdds, nCommits, saveVars, putVars, procVars, cmdVars>>

\* gato merge: the tips C of the active branch and T of the target, their base B,
\* Tree::merge of the three root trees, then a MergedCommitV1 with parents C and T
\* whose dependencies are those of C, of T, those collected by Tree::merge and the
\* merged root; Commit::save; the index is cleared.  A failed merge keeps what it
\* has written to the store and changes nothing else.
MergeSave(r, res, commit) ==
  /\ store' = put(res.store, compute_hash(commit), commit)
  /\ refs' = write_ref(r, compute_hash(commit))
  /\ index' = [index EXCEPT ![r] = NoIndex]
  /\ nCommits' = nCommits + 1

MergeTrees(r, c, t, res) ==
  IF res.ok
  THEN MergeSave(r, res,
                 MergedCommitV1(compute_hash(res.tree), c, t,
                                store[c].dependencies \cup store[t].dependencies
                                  \cup res.deps \cup {compute_hash(res.tree)}))
  ELSE /\ store' = res.store
       /\ UNCHANGED <<refs, index, nCommits>>

MergeFrom(r, c, t, b, order) ==
  /\ can_load_tree(store, store[b].tree_hash)
  /\ can_load_tree(store, store[c].tree_hash)
  /\ can_load_tree(store, store[t].tree_hash)
  /\ MergeTrees(r, c, t,
                tree_merge(store[store[b].tree_hash], store[store[c].tree_hash],
                           store[store[t].tree_hash], store, config[r], order))

MergeTips(r, c, t, order) ==
  /\ chain_ok(store, c)
  /\ chain_ok(store, t)
  /\ base(store, c, t) # None
  /\ MergeFrom(r, c, t, base(store, c, t)[1], order)

Merge(r, target, order) ==
  /\ can_run(r)
  /\ nCommits < MaxCommits
  /\ get_parent_hash(r) # None
  /\ read_ref(r, target) # None
  /\ MergeTips(r, get_parent_hash(r)[1], read_ref(r, target)[1], order)
  /\ UNCHANGED <<config, head, nAdds, saveVars, putVars, procVars, cmdVars>>

Next ==
  \/ \E r \in Repos : \E fs \in AddInputs : Add(r, fs)
  \/ \E r \in Repos : Commit(r)
  \/ \E r \in BranchingRepos : \E name \in Branches : NewBranch(r, name)
  \/ \E r \in BranchingRepos : \E name \in Branches : ChangeBranch(r, name)
  \/ \E r \in BranchingRepos : \E name \in Branches : DeleteBranch(r, name)
  \/ \E r \in BranchingRepos : \E n \in 0..MaxReset : SoftReset(r, n)
  \/ \E r \in BranchingRepos : \E target \in Branches : \E order \in NameOrders :
       Merge(r, target, order)
  \/ Gc
  \/ \E r \in DeletedRepos : DeleteRepo(r)

Spec == Init /\ [][Next]_vars

NextQuiet ==
  \/ \E r \in Repos : \E fs \in AddInputs : Add(r, fs)
  \/ \E r \in Repos : Commit(r)
  \/ \E r \in BranchingRepos : \E name \in Branches : NewBranch(r, name)
  \/ \E r \in BranchingRepos : \E name \in Branches : ChangeBranch(r, name)
  \/ \E r \in BranchingRepos : \E name \in Branches : DeleteBranch(r, name)
  \/ \E r \in BranchingRepos : \E n \in 0..MaxReset : SoftReset(r, n)
  \/ \E r \in BranchingRepos : \E target \in Branches : \E order \in NameOrders :
       Merge(r, target, order)
  \/ GcQuiet
  \/ \E r \in DeletedRepos : DeleteRepo(r)

SpecQuiet == Init /\ [][NextQuiet]_vars

(***************************************************************************)
(* SpecSave: gato commit step by step.                                     *)
(***************************************************************************)
\* Commit::new: the trees are saved and the commit is built; save comes next.
CommitNew(r) ==
  /\ can_run(r)
  /\ index[r] # NoIndex
  /\ nCommits < MaxCommits
  /\ store' = save_trees(store, commit_new(r).saved)
  /\ pending' = [pending EXCEPT ![r] = [commit |-> commit_new(r).commit, created |-> FALSE]]
  /\ pc' = [pc EXCEPT ![r] = save_steps[1]]
  /\ nCommits' = nCommits + 1
  /\ UNCHANGED <<config, head, refs, index, nAdds, orphan, putVars, procVars, cmdVars>>

\* storage.put(&hash_hex, data)?  The write fails (ok = FALSE) only when there is
\* something to write; save then returns the error and the command ends.
SavePut(r, ok) ==
  /\ pc[r] = "put"
  /\ ok \/ ~exist(store, compute_hash(pending[r].commit))
  /\ IF ok
     THEN /\ store' = put(store, compute_hash(pending[r].commit), pending[r].commit)
          /\ pending' = [pending EXCEPT ![r].created =
                           ~exist(store, compute_hash(pending[r].commit))]
          /\ pc' = [pc EXCEPT ![r] = after_save_step("put")]
     ELSE /\ pending' = [pending EXCEPT ![r] = NoPending]
          /\ pc' = [pc EXCEPT ![r] = "idle"]
          /\ UNCHANGED store
  /\ UNCHANGED <<repoVars, orphan, putVars, procVars, cmdVars>>

\* storage.write_ref(storage.get_active_branche(), hash_bytes)?
SaveWriteRef(r) ==
  /\ pc[r] = "write_ref"
  /\ refs' = write_ref(r, compute_hash(pending[r].commit))
  /\ pc' = [pc EXCEPT ![r] = after_save_step("write_ref")]
  /\ UNCHANGED <<store, config, head, index, nAdds, nCommits, pending, orphan, putVars, procVars, cmdVars>>

\* fs::remove_file(Index::index_file_path(..))?  and the command returns Ok.
CommitRemoveIndex(r) ==
  /\ pc[r] = "remove_file"
  /\ index' = [index EXCEPT ![r] = NoIndex]
  /\ pending' = [pending EXCEPT ![r] = NoPending]
  /\ pc' = [pc EXCEPT ![r] = "idle"]
  /\ UNCHANGED <<store, config, head, refs, nAdds, nCommits, orphan, putVars, procVars, cmdVars>>

\* The put of the running save is done and its write_ref is not.
between_put_and_ref(r) ==
  /\ pc[r] \in Range(save_steps)
  /\ pc[r] # "put"
  /\ after_save_step("put") = pc[r]

\* The process running commit dies between two steps.  A commit object the save
\* had created and not yet published is recorded.
Die(r) ==
  /\ pc[r] # "idle"
  /\ orphan' = [orphan EXCEPT ![r] =
                  IF between_put_and_ref(r) /\ pending[r].created
                  THEN Some(compute_hash(pending[r].commit)) ELSE None]
  /\ pending' = [pending EXCEPT ![r] = NoPending]
  /\ pc' = [pc EXCEPT ![r] = "idle"]
  /\ UNCHANGED <<store, repoVars, putVars, procVars, cmdVars>>

NextSave ==
  \/ \E r \in Repos : \E fs \in AddInputs : Add(r, fs)
  \/ \E r \in Repos \ BranchingRepos : Commit(r)
  \/ \E r \in BranchingRepos : CommitNew(r)
  \/ \E r \in BranchingRepos : \E ok \in BOOLEAN : SavePut(r, ok)
  \/ \E r \in BranchingRepos : SaveWriteRef(r)
  \/ \E r \in BranchingRepos : CommitRemoveIndex(r)
  \/ \E r \in BranchingRepos : Die(r)
  \/ \E r \in BranchingRepos : \E name \in Branches : ChangeBranch(r, name)
  \/ Gc

SpecSave == Init /\ [][NextSave]_vars

(***************************************************************************)
(* SpecPut: LocalStorage::put system call by system call, one caller at a  *)
(* time.  fs::write creates (or truncates) the object file and then writes *)
(* the bytes: between the two the file holds a strict prefix of them.      *)
(***************************************************************************)
\* The content of an object file that holds only a strict prefix of `data`.
Torn(data) == [torn |-> data]

\* How a put call ended.
put_ended(result) ==
  [result |-> result, hash |-> wr.hash, data |-> wr.data, later |-> wr.later]

\* put(hash, data) is called: `if !self.exist(hash)`, else Ok(()) at once.
PutCall(hash, data) ==
  /\ wr = NoPut
  /\ IF must_write(store, hash)
     THEN /\ wr' = [step |-> "create_dir_all", hash |-> hash, data |-> data,
                    later |-> first[hash] # None]
          /\ UNCHANGED lastPut
     ELSE /\ lastPut' = [result |-> "Ok", hash |-> hash, data |-> data,
                         later |-> first[hash] # None]
          /\ UNCHANGED wr
  /\ UNCHANGED <<store, first, repoVars, saveVars, cmdVars, procVars>>

\* std::fs::create_dir_all(parent).map_err(|_| StorageError::WriteError)?
PutCreateDir(ok) ==
  /\ wr.step = "create_dir_all"
  /\ IF ok
     THEN wr' = [wr EXCEPT !.step = "create"] /\ UNCHANGED lastPut
     ELSE wr' = NoPut /\ lastPut' = put_ended("WriteError")
  /\ UNCHANGED <<store, first, repoVars, saveVars, cmdVars, procVars>>

\* fs::write, first half: the object file is created or truncated.
PutCreate(ok) ==
  /\ wr.step = "create"
  /\ IF ok
     THEN /\ store' = (wr.hash :> Torn(wr.data)) @@ store
          /\ wr' = [wr EXCEPT !.step = "write_all"]
          /\ UNCHANGED lastPut
     ELSE /\ wr' = NoPut
          /\ lastPut' = put_ended("WriteError")
          /\ UNCHANGED store
  /\ UNCHANGED <<first, repoVars, saveVars, cmdVars, procVars>>

\* fs::write, second half: the bytes are written; on an error the file keeps
\* what had been written.
PutWriteAll(ok) ==
  /\ wr.step = "write_all"
  /\ wr' = NoPut
  /\ IF ok
     THEN /\ store' = (wr.hash :> wr.data) @@ store
          /\ first' = [first EXCEPT ![wr.hash] = IF @ = None THEN Some(wr.data) ELSE @]
          /\ lastPut' = put_ended("Ok")
     ELSE /\ lastPut' = put_ended("WriteError")
          /\ UNCHANGED <<store, first>>
  /\ UNCHANGED <<repoVars, saveVars, cmdVars, procVars>>

\* The process dies during put.
PutDie ==
  /\ wr # NoPut
  /\ wr' = NoPut
  /\ lastPut' = put_ended("died")
  /\ UNCHANGED <<store, first, repoVars, saveVars, cmdVars, procVars>>

\* LocalStorage::remove, as gc calls it for an object that is not live.
Remove(hash) ==
  /\ wr = NoPut
  /\ exist(store, hash)
  /\ store' = [k \in DOMAIN store \ {hash} |-> store[k]]
  /\ first' = [first EXCEPT ![hash] = None]
  /\ UNCHANGED <<wr, lastPut, repoVars, saveVars, cmdVars, procVars>>

NextPut ==
  \/ \E c \in PutCalls : PutCall(c[1], c[2])
  \/ \E ok \in BOOLEAN : PutCreateDir(ok)
  \/ \E ok \in BOOLEAN : PutCreate(ok)
  \/ \E ok \in BOOLEAN : PutWriteAll(ok)
  \/ PutDie
  \/ \E hash \in PutHashes : Remove(hash)

SpecPut == Init /\ [][NextPut]_vars

(***************************************************************************)
(* SpecRace: put run by two writers at once, the workers of one add call   *)
(* (par_iter in add_all, process_chunk) or two processes that share the    *)
(* store.  Each writer runs the steps of LocalStorage::put; a reader may    *)
(* get an object between any two steps.                                    *)
(***************************************************************************)
\* A file two writers have written over each other, `over` last: the bytes of
\* `over` followed by what is left of `under` past its length.
Overlaid(over, under) == [over |-> over, under |-> under]

\* The object is all of the bytes one put was called with.
is_whole(bytes) == "torn" \notin DOMAIN bytes /\ "over" \notin DOMAIN bytes

\* What write_all leaves in a file that holds `old`: the bytes written, over
\* whatever another writer has put there since the file was truncated.
written_over(data, old) ==
  IF is_whole(old) /\ old # data THEN {data, Overlaid(data, old)} ELSE {data}

\* What a put call of a writer returned.
put_returned(w, wrote) ==
  [step |-> "returned", hash |-> writers[w].hash, data |-> writers[w].data,
   wrote |-> wrote]

\* A writer calls put(hash, data): `if !self.exist(hash)`, else Ok(()) at once.
RacePut(w, hash, data) ==
  /\ writers[w].step \in {"idle", "returned"}
  /\ writers' = [writers EXCEPT ![w] =
       IF must_write(store, hash)
       THEN [step |-> "create", hash |-> hash, data |-> data]
       ELSE [step |-> "returned", hash |-> hash, data |-> data, wrote |-> FALSE]]
  /\ UNCHANGED <<store, repoVars, saveVars, putVars, cmdVars, gatofs>>

\* create_dir_all, then fs::write creates or truncates the object file.
RaceCreate(w) ==
  /\ writers[w].step = "create"
  /\ store' = (writers[w].hash :> Torn(writers[w].data)) @@ store
  /\ writers' = [writers EXCEPT ![w].step = "write_all"]
  /\ UNCHANGED <<repoVars, saveVars, putVars, cmdVars, gatofs>>

\* fs::write writes the bytes and put returns Ok(()).
RaceWriteAll(w, bytes) ==
  /\ writers[w].step = "write_all"
  /\ bytes \in written_over(writers[w].data, store[writers[w].hash])
  /\ store' = (writers[w].hash :> bytes) @@ store
  /\ writers' = [writers EXCEPT ![w] = put_returned(w, TRUE)]
  /\ UNCHANGED <<repoVars, saveVars, putVars, cmdVars, gatofs>>

\* LocalStorage::get of a reader: fs::read of the object file.
RaceGet(hash) ==
  /\ ret' = IF exist(store, hash)
            THEN [cmd |-> "get", result |-> "Ok", hash |-> hash, data |-> store[hash]]
            ELSE [cmd |-> "get", result |-> "Err", hash |-> hash]
  /\ UNCHANGED <<store, work, repoVars, saveVars, putVars, procVars>>

\* The bytes a file may hold after write_all, whatever it held before.
RaceBytes == {c[2] : c \in PutCalls} \cup {Overlaid(c[2], d[2]) : c, d \in PutCalls}

NextRace ==
  \/ \E w \in Writers : \E c \in PutCalls : RacePut(w, c[1], c[2])
  \/ \E w \in Writers : RaceCreate(w)
  \/ \E w \in Writers : \E bytes \in RaceBytes : RaceWriteAll(w, bytes)
  \/ \E hash \in PutHashes : RaceGet(hash)

SpecRace == Init /\ [][NextRace]_vars

(***************************************************************************)
(* SpecAdd: add and commit when writes to the store may fail.  `bad` is    *)
(* the set of hashes whose object file cannot be written during a command; *)
(* paths are read from the working directory of the repository.            *)
(***************************************************************************)
\* put(hash, ..) returns Err(WriteError): there is something to write and the
\* write fails.
put_fails(st, hash, bad) == must_write(st, hash) /\ hash \in bad

\* add_file: `storage.put(&hash_str, data.encode()?)?` returns the error.
add_file_w(st, codec, buffer, bad) ==
  IF put_fails(st, compute_hash(buffer), bad)
  THEN [ok |-> FALSE, store |-> st]
  ELSE [ok |-> TRUE, store |-> add_file(st, codec, buffer).store,
        hash |-> add_file(st, codec, buffer).hash,
        deps |-> add_file(st, codec, buffer).deps]

\* ChunkerResult::save_chunks: `Err(e) => println!("{e}")`, the chunk is not
\* written and save_chunks returns nothing.
save_chunks_w(st, result, bad) ==
  put_all(st, SetToSeq({c \in result.chunks : c[1] \notin bad}))

\* add_as_chunk: save_chunks, then `storage.put(&hash_str, file_data)?`.
add_as_chunk_put(st1, file_data, hashes, bad) ==
  IF put_fails(st1, compute_hash(file_data), bad)
  THEN [ok |-> FALSE, store |-> st1]
  ELSE [ok |-> TRUE, store |-> put(st1, compute_hash(file_data), file_data),
        hash |-> compute_hash(file_data),
        deps |-> Range(hashes) \cup {compute_hash(file_data)}]

add_as_chunk_saved(st, chunker_result, bad) ==
  add_as_chunk_put(save_chunks_w(st, chunker_result, bad),
                   BlobChunksMap(chunker_result.ordered_hashes),
                   chunker_result.ordered_hashes, bad)

add_as_chunk_w(st, codec, buffer, bad) ==
  add_as_chunk_saved(st, process_chunk(st, codec, cut(buffer)), bad)

\* The closure of add_all's par_iter for one path of the working directory wd:
\* get_file_metadata fails when the file is absent.
add_path_w(st, codec, wd, path, bad) ==
  IF path \notin DOMAIN wd THEN [ok |-> FALSE, store |-> st]
  ELSE IF Len(wd[path].raw) < LargeLen THEN add_file_w(st, codec, wd[path], bad)
  ELSE add_as_chunk_w(st, codec, wd[path], bad)

\* add_all's loop over the collected results: the entry of a file that succeeded
\* goes into the index in memory.
add_entry_w(ix, wd, path, stat, res) ==
  IF res.ok THEN index_add(ix, path, IndexEntry(res.hash, wd[path], stat), res.deps)
  ELSE ix

\* add_all over the paths: every path is processed (par_iter collects every
\* result); the first Err is returned before index.save, else the index is saved.
RECURSIVE add_all_w(_, _, _, _, _, _, _)
add_rest_w(res, ix, codec, wd, paths, stat, bad) ==
  [add_all_w(res.store, add_entry_w(ix, wd, Head(paths), stat, res), codec, wd,
             Tail(paths), stat, bad)
     EXCEPT !.ok = @ /\ res.ok]

add_all_w(st, ix, codec, wd, paths, stat, bad) ==
  IF paths = <<>> THEN [ok |-> TRUE, store |-> st, index |-> ix]
  ELSE add_rest_w(add_path_w(st, codec, wd, Head(paths), bad),
                  ix, codec, wd, paths, stat, bad)

\* What a command returned.
Returned(cmd, r, ok) == [cmd |-> cmd, repo |-> r, result |-> IF ok THEN "Ok" ELSE "Err"]

\* What an add returned, with the paths it was given, the writes that failed
\* while it ran, and whether it repeats the command before it: an add in the same
\* repository of the same paths that returned Ok and met no failure (history).
AddReturned(r, paths, bad, ok) ==
  Returned("add", r, ok)
    @@ [paths |-> paths, bad |-> bad,
        repeats |-> /\ ret.result = "Ok"
                    /\ ret.cmd = "add"
                    /\ ret.repo = r
                    /\ ret.paths = paths
                    /\ ret.bad = {}]

\* An add that saves the index it holds in memory whether or not a file failed.
AddSavedAlways(r, paths, bad, res) ==
  /\ store' = res.store
  /\ index' = [index EXCEPT ![r] = res.index]
  /\ ret' = AddReturned(r, paths, bad, res.ok)

\* add_all's end: `return Err(e)` at the first result that failed, else
\* `index.save(storage.as_ref())?; Ok(())`.
AddSaved(r, paths, bad, res) ==
  /\ store' = res.store
  /\ index' = IF res.ok THEN [index EXCEPT ![r] = res.index] ELSE index
  /\ ret' = AddReturned(r, paths, bad, res.ok)

\* gato add: the paths are processed in the order the threads reach the store.
AddW(r, paths, stat, bad) ==
  /\ can_run(r)
  /\ nAdds < MaxAdds
  /\ AddSaved(r, paths, bad,
              add_all_w(store, index_load_or_new(index[r]), config[r], work[r],
                        paths, stat, bad))
  /\ nAdds' = nAdds + 1
  /\ UNCHANGED <<config, head, refs, nCommits, saveVars, putVars, procVars, work>>

\* Tree::save for each tree of a build: `Err(e) => println!("{e}")`, the tree is
\* not written and save returns its hash.
save_trees_w(st, trees, bad) ==
  put_all(st, SelectSeq([i \in 1..Len(trees) |-> <<compute_hash(trees[i]), trees[i]>>],
                        LAMBDA t : t[1] \notin bad))

\* Commit::save and the rest of LocalStorage::commit after Commit::new has saved
\* the trees into st1: `storage.put(&hash_hex, data)?` returns the error, and then
\* neither the ref is written nor the index removed.
CommitReturned(r, bad, ok) == Returned("commit", r, ok) @@ [bad |-> bad]

\* A commit that leaves the index file in place.
CommitSavedKeepsIndex(r, st1, commit, bad) ==
  IF put_fails(st1, compute_hash(commit), bad)
  THEN /\ store' = st1
       /\ ret' = CommitReturned(r, bad, FALSE)
       /\ UNCHANGED <<refs, index>>
  ELSE /\ store' = put(st1, compute_hash(commit), commit)
       /\ refs' = write_ref(r, compute_hash(commit))
       /\ ret' = CommitReturned(r, bad, TRUE)
       /\ UNCHANGED index

CommitSaved(r, st1, commit, bad) ==
  IF put_fails(st1, compute_hash(commit), bad)
  THEN /\ store' = st1
       /\ ret' = CommitReturned(r, bad, FALSE)
       /\ UNCHANGED <<refs, index>>
  ELSE /\ store' = put(st1, compute_hash(commit), commit)
       /\ refs' = write_ref(r, compute_hash(commit))
       /\ index' = [index EXCEPT ![r] = NoIndex]
       /\ ret' = CommitReturned(r, bad, TRUE)

\* gato commit when writes may fail.
MaxFailingCommits == 2
CommitW(r, bad) ==
  /\ can_run(r)
  /\ index[r] # NoIndex
  /\ nCommits < MaxFailingCommits
  /\ CommitSaved(r, save_trees_w(store, commit_new(r).saved, bad), commit_new(r).commit, bad)
  /\ nCommits' = nCommits + 1
  /\ UNCHANGED <<config, head, nAdds, saveVars, putVars, procVars, work>>

\* gato commit without an index file: Index::load returns Err and Commit::new
\* dies on expect("Failed to load index") before anything is written.
CommitNoIndex(r) ==
  /\ can_run(r)
  /\ index[r] = NoIndex
  /\ nCommits < MaxFailingCommits
  /\ ret' = CommitReturned(r, {}, FALSE)
  /\ nCommits' = nCommits + 1
  /\ UNCHANGED <<store, config, head, refs, index, nAdds, saveVars, putVars, procVars, work>>

\* The working directory of SpecAdd: a small file, a file of exactly the
\* threshold's size and a larger file with a repeated chunk.
RawHuge == [raw |-> <<2, 2, 1>>]
AddFiles == Files \cup {<<(<<"b">>), RawHuge>>}

\* The user rewrites a file of the working directory; the next add then no
\* longer repeats the previous one.
Edit(r, path, buffer) ==
  /\ path \in DOMAIN work[r]
  /\ work[r][path] # buffer
  /\ work' = [work EXCEPT ![r][path] = buffer]
  /\ ret' = Returned("edit", r, TRUE)
  /\ UNCHANGED <<store, repoVars, saveVars, putVars, procVars>>

\* The paths one add call is given, in the order they are processed: one path,
\* or a and d/b in either order.
AllPaths == {<<"a">>, <<"b">>, <<"d", "b">>}
AddPaths == {<<p>> : p \in AllPaths} \cup {s \in Paths \X Paths : s[1] # s[2]}
Stats == {StatNow, StatLater}

\* The writes that fail during one add: none, or those of one hash.
AddBads ==
  {{}} \cup {{h} : h \in {compute_hash(RawA),
                          compute_hash(BlobChunksMap(<<compute_hash(RawA), compute_hash(RawB)>>))}}

\* The repositories whose commands meet write failures and whose files change
\* their age and mode between two adds; the other repositories only stage files.
FailingRepos == {2}

\* The writes that fail during one commit: none, those of one of the trees it
\* saves, or that of the commit object.
CommitBads(r) ==
  {{}} \cup {{compute_hash(t)} : t \in Range(commit_new(r).saved)}
      \cup {{compute_hash(commit_new(r).commit)}}

\* In the repositories that meet failures the file d/b starts with other bytes
\* and is rewritten later.
RawOld == [raw |-> <<3, 1>>]
InitAdd ==
  InitWith([r \in Repos |-> IF r \in FailingRepos
                             THEN (<<"d", "b">> :> RawOld) @@ WorkingDir(AddFiles)
                             ELSE WorkingDir(AddFiles)])

NextAdd ==
  \/ \E r \in Repos \ FailingRepos : \E paths \in AddPaths : AddW(r, paths, StatNow, {})
  \/ \E r \in FailingRepos : \E paths \in AddPaths : \E stat \in Stats : \E bad \in AddBads :
       AddW(r, paths, stat, bad)
  \/ \E r \in FailingRepos : AddW(r, <<>>, StatNow, {})
  \/ \E r \in FailingRepos : index[r] # NoIndex /\ \E bad \in CommitBads(r) : CommitW(r, bad)
  \/ \E r \in FailingRepos : CommitNoIndex(r)
  \/ \E r \in FailingRepos : Edit(r, <<"d", "b">>, RawBig)

SpecAdd == InitAdd /\ [][NextAdd]_vars

(***************************************************************************)
(* Checkout: the tree of a commit written back into the working directory. *)
(* A working directory is a function from paths to file contents; every    *)
(* operator below returns [ok, wd]: whether it returned Ok and the working *)
(* directory it leaves behind.                                             *)
(***************************************************************************)
EmptyFile == [raw |-> <<>>]

\* The bytes are the output of compress under some codec.
is_compressed(bytes) == "codec" \in DOMAIN bytes

\* crate::core::add::decompress under the codec of the repository: Err (zlib) or
\* panic (zstd) on anything that is not a stream of that codec.
decompress_ok(codec, bytes) ==
  IF is_compressed(bytes) THEN can_decompress(codec, bytes) ELSE FALSE

\* IndexData::restore_file: File::create empties the target, then every chunk
\* is read, decompressed and appended; the first failure returns Err and leaves
\* the file as written so far.
RECURSIVE restore_chunks(_, _, _, _, _)
restore_chunks(wd, st, codec, path, hashes) ==
  IF hashes = <<>> THEN [ok |-> TRUE, wd |-> wd]
  ELSE IF ~ exist(st, Head(hashes)) THEN [ok |-> FALSE, wd |-> wd]
  ELSE IF ~ decompress_ok(codec, st[Head(hashes)]) THEN [ok |-> FALSE, wd |-> wd]
  ELSE restore_chunks(
         [wd EXCEPT ![path] = [raw |-> @.raw \o decompress(st[Head(hashes)]).raw]],
         st, codec, path, Tail(hashes))

restore_file(wd, st, codec, path, index_data) ==
  restore_chunks((path :> EmptyFile) @@ wd, st, codec, path, index_data.path)

\* Blob::restore: a Normal blob is decompressed (unwrap: the command dies on a
\* failure, before the file is touched) and written; a ChunksMap is restored
\* chunk by chunk.
blob_restore(wd, st, codec, path, blob) ==
  IF blob.tag = "Normal"
  THEN IF decompress_ok(codec, blob.content)
       THEN [ok |-> TRUE, wd |-> (path :> decompress(blob.content)) @@ wd]
       ELSE [ok |-> FALSE, wd |-> wd]
  ELSE restore_file(wd, st, codec, path, blob)

\* decode_from_slice::<Blob>: the bytes are an encoded Blob.
IsBlob(bytes) == Tag(bytes) \in {"Normal", "ChunksMap"}

\* TreeEntry::write over the entries of one tree, in order, stopping at the
\* first Err: a Blob entry is read, decoded and restored at parent_path/name; a
\* Tree entry is loaded and its entries written under parent_path/name.
RECURSIVE write_entries(_, _, _, _, _)
write_blob_entry(wd, st, codec, path, hash) ==
  IF exist(st, hash) /\ IsBlob(st[hash])
  THEN blob_restore(wd, st, codec, path, st[hash])
  ELSE [ok |-> FALSE, wd |-> wd]

write_tree_entry(wd, st, codec, dir_path, hash) ==
  IF can_load_tree(st, hash)
  THEN write_entries(wd, st, codec, dir_path, st[hash].entries)
  ELSE [ok |-> FALSE, wd |-> wd]

write_entry(wd, st, codec, parent_path, entry) ==
  IF entry.kind = "Blob"
  THEN write_blob_entry(wd, st, codec, Append(parent_path, entry.name), entry.hash)
  ELSE write_tree_entry(wd, st, codec, Append(parent_path, entry.name), entry.hash)

write_rest(res, st, codec, parent_path, entries) ==
  IF res.ok THEN write_entries(res.wd, st, codec, parent_path, entries) ELSE res

write_entries(wd, st, codec, parent_path, entries) ==
  IF entries = <<>> THEN [ok |-> TRUE, wd |-> wd]
  ELSE write_rest(write_entry(wd, st, codec, parent_path, Head(entries)),
                  st, codec, parent_path, Tail(entries))

\* Commit::write_tree: the root tree is loaded and its entries written under
\* the working directory.
write_tree(wd, st, codec, commit) ==
  write_tree_entry(wd, st, codec, <<>>, commit.tree_hash)

\* A checkout that empties the working directory before it writes the tree.
NoFiles == [p \in {} |-> EmptyFile]
check_out_clean(wd, st, codec, found) ==
  IF found = None THEN [ok |-> TRUE, wd |-> wd]
  ELSE IF ~ can_load(st, found[1]) THEN [ok |-> FALSE, wd |-> wd]
  ELSE write_tree(NoFiles, st, codec, st[found[1]])

\* LocalStorage::check_out(commit_index): an unknown index prints a message
\* and returns Ok; Commit::load dies on a missing or undecodable commit.
check_out(wd, st, codec, found) ==
  IF found = None THEN [ok |-> TRUE, wd |-> wd]
  ELSE IF ~ can_load(st, found[1]) THEN [ok |-> FALSE, wd |-> wd]
  ELSE write_tree(wd, st, codec, st[found[1]])

\* The paths whose file a command created or left with other bytes.
written(wd, after) == {p \in DOMAIN after : IF p \in DOMAIN wd THEN wd[p] # after[p] ELSE TRUE}

CheckOutReturned(r, n, res) ==
  /\ work' = [work EXCEPT ![r] = res.wd]
  /\ ret' = Returned("checkout", r, res.ok)
              @@ [commit |-> get_hash_from_index(store, r, n),
                  written |-> written(work[r], res.wd)]

CheckOut(r, n) ==
  /\ can_run(r)
  /\ CheckOutReturned(r, n, check_out(work[r], store, config[r],
                                      get_hash_from_index(store, r, n)))
  /\ UNCHANGED <<store, repoVars, saveVars, putVars, procVars>>

\* The user removes a file of the working directory.
Unlink(r, path) ==
  /\ path \in DOMAIN work[r]
  /\ work' = [work EXCEPT ![r] = [p \in DOMAIN work[r] \ {path} |-> work[r][p]]]
  /\ ret' = Returned("unlink", r, TRUE)
  /\ UNCHANGED <<store, repoVars, saveVars, putVars, procVars>>

\* Two repositories with different codecs over one store and the same files;
\* each adds, commits, rewrites the file a and checks a commit out, and the
\* user of one of them removes the file d/b.
UnlinkingRepos == {1}
CommitIndexes == 0 .. 1

NextCheckout ==
  \/ \E r \in Repos : \E paths \in AddPaths : AddW(r, paths, StatNow, {})
  \/ \E r \in Repos : index[r] # NoIndex /\ CommitW(r, {})
  \/ \E r \in Repos : Edit(r, <<"a">>, RawB)
  \/ \E r \in Repos : \E n \in CommitIndexes : CheckOut(r, n)
  \/ \E r \in UnlinkingRepos : Unlink(r, <<"d", "b">>)

SpecCheckout == Init /\ [][NextCheckout]_vars

(***************************************************************************)
(* SpecBranch: one repository whose user edits a file, adds, commits,      *)
(* creates, changes and deletes branches and merges them; every command    *)
(* records its result.                                                     *)
(***************************************************************************)
\* gato commit, every write succeeding.
CommitOk(r) ==
  /\ can_run(r)
  /\ index[r] # NoIndex
  /\ nCommits < MaxCommits
  /\ CommitSaved(r, save_trees_w(store, commit_new(r).saved, {}), commit_new(r).commit, {})
  /\ nCommits' = nCommits + 1
  /\ UNCHANGED <<config, head, nAdds, saveVars, putVars, procVars, work>>

\* What a branch command or a merge returned: the branch it named and its error.
NoError == [kind |-> "NoError"]
BranchReturned(cmd, r, name, error) ==
  Returned(cmd, r, error = NoError) @@ [name |-> name, error |-> error]

\* A new_branch that copies master's tip, whichever branch is active.
new_branch_from_master(r, name) ==
  IF read_ref(r, "master") = None
  THEN /\ ret' = BranchReturned("new-branch", r, name, [kind |-> "ReadError"])
       /\ UNCHANGED refs
  ELSE /\ ret' = BranchReturned("new-branch", r, name, NoError)
       /\ refs' = [refs EXCEPT ![r] = (name :> read_ref(r, "master")[1]) @@ refs[r]]

\* new_branch: read_ref_vec(active)? returns the read error before the ref
\* file is written; else the ref `name` is written with the active tip.
new_branch(r, name) ==
  IF get_parent_hash(r) = None
  THEN /\ ret' = BranchReturned("new-branch", r, name, [kind |-> "ReadError"])
       /\ UNCHANGED refs
  ELSE /\ ret' = BranchReturned("new-branch", r, name, NoError)
       /\ refs' = [refs EXCEPT ![r] = (name :> get_parent_hash(r)[1]) @@ refs[r]]

NewBranchW(r, name) ==
  /\ can_run(r)
  /\ new_branch(r, name)
  /\ UNCHANGED <<store, config, head, index, nAdds, nCommits, saveVars, putVars, procVars, work>>

\* change_branch: HEAD is rewritten, whether or not the branch has a ref.
ChangeBranchW(r, name) ==
  /\ can_run(r)
  /\ head' = [head EXCEPT ![r] = name]
  /\ ret' = BranchReturned("change-branch", r, name, NoError)
  /\ UNCHANGED <<store, config, refs, index, nAdds, nCommits, saveVars, putVars, procVars, work>>

\* A delete_branch without the test for the active branch.
delete_ref_unchecked(r, name) ==
  IF name \in DOMAIN refs[r]
  THEN /\ ret' = BranchReturned("delete-branch", r, name, NoError)
       /\ refs' = [refs EXCEPT ![r] = [b \in DOMAIN refs[r] \ {name} |-> refs[r][b]]]
  ELSE /\ ret' = BranchReturned("delete-branch", r, name, [kind |-> "IoError"])
       /\ UNCHANGED refs

\* delete_branch: the active branch is refused; fs::remove_file of the ref file
\* fails when there is none.
delete_branch(r, name) ==
  IF name = get_active_branche(r)
  THEN /\ ret' = BranchReturned("delete-branch", r, name,
                             [kind |-> "ActiveBranchDeletionError"])
       /\ UNCHANGED refs
  ELSE IF name \in DOMAIN refs[r]
  THEN /\ ret' = BranchReturned("delete-branch", r, name, NoError)
       /\ refs' = [refs EXCEPT ![r] = [b \in DOMAIN refs[r] \ {name} |-> refs[r][b]]]
  ELSE /\ ret' = BranchReturned("delete-branch", r, name, [kind |-> "IoError"])
       /\ UNCHANGED refs

DeleteBranchW(r, name) ==
  /\ can_run(r)
  /\ delete_branch(r, name)
  /\ UNCHANGED <<store, config, head, index, nAdds, nCommits, saveVars, putVars, procVars, work>>

\* gato merge, with its result: an error when there is no common base or when
\* Tree::merge fails, else the merged commit.
MergeTreesW(r, target, c, t, res) ==
  /\ MergeTrees(r, c, t, res)
  /\ ret' = BranchReturned("merge", r, target, IF res.ok THEN NoError ELSE res.error)
              @@ [conflicts |-> IF res.ok THEN res.conflicts ELSE {}]

MergeFromW(r, target, c, t, b, order) ==
  /\ can_load_tree(store, store[b].tree_hash)
  /\ can_load_tree(store, store[c].tree_hash)
  /\ can_load_tree(store, store[t].tree_hash)
  /\ MergeTreesW(r, target, c, t,
                 tree_merge(store[store[b].tree_hash], store[store[c].tree_hash],
                            store[store[t].tree_hash], store, config[r], order))

MergeTipsW(r, target, c, t, order) ==
  /\ chain_ok(store, c)
  /\ chain_ok(store, t)
  /\ IF base(store, c, t) = None
     THEN /\ ret' = BranchReturned("merge", r, target, [kind |-> "NoCommonBase"])
                      @@ [conflicts |-> {}]
          /\ UNCHANGED <<store, refs, index, nCommits>>
     ELSE MergeFromW(r, target, c, t, base(store, c, t)[1], order)

MergeW(r, target, order) ==
  /\ can_run(r)
  /\ nCommits < MaxCommits
  /\ get_parent_hash(r) # None
  /\ read_ref(r, target) # None
  /\ MergeTipsW(r, target, get_parent_hash(r)[1], read_ref(r, target)[1], order)
  /\ UNCHANGED <<config, head, nAdds, saveVars, putVars, procVars, work>>

\* The working directory: the file a, rewritten twice, and the file b.
RawC == [raw |-> <<3>>]
RawX == [raw |-> <<4>>]
BranchDir == (<<"a">> :> RawA) @@ (<<"b">> :> RawX)
Rewrites == {<<RawA, RawB>>, <<RawB, RawC>>}
BranchPaths == {<<(<<"a">>)>>, <<(<<"b">>)>>}

BranchOrders == {NameOrder, <<"d", "b", "a">>}

InitBranch == InitWith([r \in Repos |-> BranchDir])

NextBranch ==
  \/ \E r \in BranchingRepos : \E paths \in BranchPaths : AddW(r, paths, StatNow, {})
  \/ \E r \in BranchingRepos : CommitOk(r)
  \/ \E r \in BranchingRepos : \E w \in Rewrites :
       work[r][<<"a">>] = w[1] /\ Edit(r, <<"a">>, w[2])
  \/ \E r \in BranchingRepos : \E name \in Branches : NewBranchW(r, name)
  \/ \E r \in BranchingRepos : \E name \in Branches : ChangeBranchW(r, name)
  \/ \E r \in BranchingRepos : \E name \in Branches : DeleteBranchW(r, name)
  \/ \E r \in BranchingRepos : \E target \in Branches : \E order \in BranchOrders :
       MergeW(r, target, order)

SpecBranch == InitBranch /\ [][NextBranch]_vars

(***************************************************************************)
(* SpecReset: one repository whose user adds, commits, works on two        *)
(* branches, merges them and moves the active branch back with soft-reset. *)
(***************************************************************************)
\* soft_reset: the ref of the active branch is rewritten when
\* get_hash_from_index finds a commit; nothing is reported otherwise.
soft_reset(r, n) ==
  IF get_hash_from_index(store, r, n) = None THEN UNCHANGED refs
  ELSE refs' = write_ref(r, get_hash_from_index(store, r, n)[1])

SoftResetW(r, n) ==
  /\ can_run(r)
  /\ get_parent_hash(r) # None => chain_ok(store, get_parent_hash(r)[1])
  /\ soft_reset(r, n)
  /\ ret' = Returned("soft-reset", r, TRUE) @@ [n |-> n]
  /\ UNCHANGED <<store, config, head, index, nAdds, nCommits, saveVars, putVars, procVars, work>>

NextReset ==
  \/ \E r \in BranchingRepos : AddW(r, <<(<<"a">>)>>, StatNow, {})
  \/ \E r \in BranchingRepos : CommitOk(r)
  \/ \E r \in BranchingRepos : \E w \in Rewrites :
       work[r][<<"a">>] = w[1] /\ Edit(r, <<"a">>, w[2])
  \/ \E r \in BranchingRepos : \E name \in Branches : NewBranchW(r, name)
  \/ \E r \in BranchingRepos : \E name \in Branches : ChangeBranchW(r, name)
  \/ \E r \in BranchingRepos : \E target \in Branches : MergeW(r, target, NameOrder)
  \/ \E r \in BranchingRepos : \E n \in 0..MaxReset : SoftResetW(r, n)

SpecReset == InitBranch /\ [][NextReset]_vars

(***************************************************************************)
(* SpecStage: one repository whose user stages paths one at a time and     *)
(* commits, and who replaces the file d of the working directory by a      *)
(* directory d that holds a file b.                                        *)
(***************************************************************************)
StageDir == (<<"a">> :> RawA) @@ (<<"d">> :> RawB)
StagePaths == {<<"a">>, <<"d">>, <<"d", "b">>}

\* rm d; mkdir d; the file d/b is written.
ReplaceByDirectory(r) ==
  /\ <<"d">> \in DOMAIN work[r]
  /\ work' = [work EXCEPT ![r] = (<<"d", "b">> :> RawA) @@ [p \in {<<"a">>} |-> work[r][p]]]
  /\ ret' = Returned("replace", r, TRUE)
  /\ UNCHANGED <<store, repoVars, saveVars, putVars, procVars>>

InitStage == InitWith([r \in Repos |-> StageDir])

NextStage ==
  \/ \E r \in BranchingRepos : \E path \in StagePaths : AddW(r, <<path>>, StatNow, {})
  \/ \E r \in BranchingRepos : CommitOk(r)
  \/ \E r \in BranchingRepos : Edit(r, <<"a">>, RawB)
  \/ \E r \in BranchingRepos : ReplaceByDirectory(r)

SpecStage == InitStage /\ [][NextStage]_vars

(***************************************************************************)
(* SpecVfs: the read-only filesystem over the tree of a commit.  One       *)
(* repository adds and commits a and d/b and is mounted; another adds a on *)
(* the shared store.  The host binding calls readdir, lookup, getattr,     *)
(* open and read, one call at a time.  Each call records its reply in      *)
(* `ret`; a panic in a callback ends the mount.                            *)
(***************************************************************************)
MaxInode == 5
MaxOffset == 2
MaxSize == 2

TreeNode(inode, parent, entry) == [inode |-> inode, parent |-> parent, entry |-> entry]

\* GatoFS::new: the root tree's entry, renamed ".", is node 1 and its own parent.
GatoFS_new(r, root_tree) ==
  [mounted |-> TRUE, repo |-> r, root_tree |-> root_tree,
   inodes |-> <<TreeNode(1, 1, TreeEntryTree(".", compute_hash(root_tree)))>>,
   next |-> 2, loaded |-> <<>>]

\* TreeNodes::get_node: the first node of the table with this inode.
get_node(inodes, inode) ==
  LET found == SelectSeq(inodes, LAMBDA n : n.inode = inode)
  IN IF found = <<>> THEN None ELSE Some(Head(found))

\* TreeNodes::find_with_name: the first node with this parent and this name.
find_with_name(inodes, parent, name) ==
  LET found == SelectSeq(inodes, LAMBDA n : n.entry.name = name /\ n.parent = parent)
  IN IF found = <<>> THEN None ELSE Some(Head(found))

\* TreeNodes::get_by_parent_fuser: (inode, type, name) of the nodes of a parent.
get_by_parent_fuser(inodes, parent) ==
  LET found == SelectSeq(inodes, LAMBDA n : n.parent = parent)
  IN [i \in 1..Len(found) |->
        [ino |-> found[i].inode,
         kind |-> IF found[i].entry.kind = "Blob" THEN "RegularFile" ELSE "Directory",
         name |-> found[i].entry.name]]

\* A load that expands the directory whether or not it has been loaded.
load_again(g, st, inode) ==
  IF get_node(g.inodes, inode) = None THEN g
  ELSE LET hash == get_node(g.inodes, inode)[1].entry.hash
       IN IF ~ can_load_tree(st, hash) THEN g
          ELSE [g EXCEPT
                  !.inodes = @ \o [i \in 1..Len(st[hash].entries) |->
                                     TreeNode(g.next + i - 1, inode, st[hash].entries[i])],
                  !.next = @ + Len(st[hash].entries),
                  !.loaded = Append(@, inode)]

\* GatoFS::load: nothing for a loaded inode; else the node's tree is loaded,
\* each entry gets next_inode() in the order of the tree, and the inode is
\* pushed on `loaded`.  An Err (no node, no tree) leaves the table as it is.
load(g, st, inode) ==
  IF inode \in Range(g.loaded) THEN g
  ELSE IF get_node(g.inodes, inode) = None THEN g
  ELSE LET hash == get_node(g.inodes, inode)[1].entry.hash
       IN IF ~ can_load_tree(st, hash) THEN g
          ELSE [g EXCEPT
                  !.inodes = @ \o [i \in 1..Len(st[hash].entries) |->
                                     TreeNode(g.next + i - 1, inode, st[hash].entries[i])],
                  !.next = @ + Len(st[hash].entries),
                  !.loaded = Append(@, inode)]

\* Blob::restore_data: a Normal blob is decompressed (unwrap: a failure is a
\* panic); a ChunksMap is Err(RestoreDataError).
restore_data(codec, blob) ==
  IF blob.tag = "Normal"
  THEN IF decompress_ok(codec, blob.content)
       THEN [result |-> "Ok", data |-> decompress(blob.content).raw]
       ELSE [result |-> "panic"]
  ELSE [result |-> "Err", error |-> "RestoreDataError"]

\* Blob::new: the object is read and decoded as a Blob.
blob_new(st, hash) ==
  IF exist(st, hash) /\ IsBlob(st[hash]) THEN Some(st[hash]) ELSE None

\* TreeNode::get_size: the length of the restored data of a file, 50 when the
\* blob cannot be read or restored, 4096 for a directory.
get_size(st, codec, node) ==
  IF node.entry.kind = "Tree" THEN [result |-> "Ok", size |-> 4096]
  ELSE IF blob_new(st, node.entry.hash) = None THEN [result |-> "Ok", size |-> 50]
  ELSE LET data == restore_data(codec, blob_new(st, node.entry.hash)[1])
       IN IF data.result = "Ok" THEN [result |-> "Ok", size |-> Len(data.data)]
          ELSE IF data.result = "panic" THEN [result |-> "panic"]
          ELSE [result |-> "Ok", size |-> 50]

\* TreeNode::make_attr
make_attr(st, codec, node) ==
  IF get_size(st, codec, node).result = "panic" THEN [result |-> "panic"]
  ELSE [result |-> "Ok",
        attr |-> [ino |-> node.inode,
                  size |-> get_size(st, codec, node).size,
                  kind |-> IF node.entry.kind = "Blob" THEN "RegularFile" ELSE "Directory"]]

\* data[start..end] with start = min(offset, len), end = min(start + size, len).
read_window(data, offset, size) ==
  LET len == Len(data)
      start == IF offset < len THEN offset ELSE len
      end == IF start + size < len THEN start + size ELSE len
  IN SubSeq(data, start + 1, end)

\* A window that starts at the first byte whatever the offset.
read_from_start(data, offset, size) ==
  SubSeq(data, 1, IF size < Len(data) THEN size ELSE Len(data))

\* GatoFS::do_read
do_read(g, st, codec, ino, offset, size) ==
  IF get_node(g.inodes, ino) = None THEN [result |-> "Err", error |-> "NodeNotLoaded"]
  ELSE LET node == get_node(g.inodes, ino)[1]
       IN IF node.entry.kind # "Blob" THEN [result |-> "Err", error |-> "NotAFile"]
          ELSE IF blob_new(st, node.entry.hash) = None
          THEN [result |-> "Err", error |-> "GatoError"]
          ELSE LET data == restore_data(codec, blob_new(st, node.entry.hash)[1])
               IN IF data.result = "Ok"
                  THEN [result |-> "Ok", data |-> read_window(data.data, offset, size)]
                  ELSE IF data.result = "panic" THEN [result |-> "panic"]
                  ELSE [result |-> "Err", error |-> "GatoError"]

\* What a callback replied, or that it panicked; a panic ends the mount.
Replied(call, reply) ==
  /\ ret' = call @@ reply
  /\ gatofs' = IF reply.result = "panic" THEN NotMounted ELSE gatofs

\* gato mount: the filesystem of the tree of the last commit of the active
\* branch.
Mount(r) ==
  /\ can_run(r)
  /\ ~ gatofs.mounted
  /\ get_parent_hash(r) # None
  /\ can_load(store, get_parent_hash(r)[1])
  /\ can_load_tree(store, store[get_parent_hash(r)[1]].tree_hash)
  /\ gatofs' = GatoFS_new(r, store[store[get_parent_hash(r)[1]].tree_hash])
  /\ ret' = Returned("mount", r, TRUE)
  /\ UNCHANGED <<store, work, repoVars, saveVars, putVars, writers>>

\* Filesystem::readdir: load, then ".", ".." and the nodes of the inode from
\* `offset` on.
Readdir(ino, offset) ==
  /\ gatofs.mounted
  /\ gatofs' = load(gatofs, store, ino)
  /\ LET parent_ino == IF get_node(gatofs'.inodes, ino) = None THEN 1
                       ELSE get_node(gatofs'.inodes, ino)[1].parent
         entries ==
           (IF ino # 1 THEN <<[ino |-> ino, kind |-> "Directory", name |-> "."]>>
            ELSE <<>>)
           \o <<[ino |-> parent_ino, kind |-> "Directory", name |-> ".."]>>
           \o get_by_parent_fuser(gatofs'.inodes, ino)
     IN ret' = [cmd |-> "readdir", result |-> "Ok", ino |-> ino, offset |-> offset,
                entries |-> SubSeq(entries, offset + 1, Len(entries))]
  /\ UNCHANGED <<store, work, repoVars, saveVars, putVars, writers>>

\* Filesystem::lookup: TreeNodes::get_file_attr_with_name, ENOENT on any Err.
Lookup(parent, name) ==
  /\ gatofs.mounted
  /\ Replied([cmd |-> "lookup", parent |-> parent, name |-> name],
             IF find_with_name(gatofs.inodes, parent, name) = None
             THEN [result |-> "ENOENT"]
             ELSE make_attr(store, config[gatofs.repo],
                            find_with_name(gatofs.inodes, parent, name)[1]))
  /\ UNCHANGED <<store, work, repoVars, saveVars, putVars, writers>>

\* Filesystem::getattr: TreeNodes::get_node_attr, ENOENT on any Err.
Getattr(ino) ==
  /\ gatofs.mounted
  /\ Replied([cmd |-> "getattr", ino |-> ino],
             IF get_node(gatofs.inodes, ino) = None THEN [result |-> "ENOENT"]
             ELSE make_attr(store, config[gatofs.repo], get_node(gatofs.inodes, ino)[1]))
  /\ UNCHANGED <<store, work, repoVars, saveVars, putVars, writers>>

\* Filesystem::open
Open(ino) ==
  /\ gatofs.mounted
  /\ Replied([cmd |-> "open", ino |-> ino],
             IF get_node(gatofs.inodes, ino) = None THEN [result |-> "ENOENT"]
             ELSE IF get_node(gatofs.inodes, ino)[1].entry.kind = "Blob"
             THEN [result |-> "Ok"]
             ELSE [result |-> "EISDIR"])
  /\ UNCHANGED <<store, work, repoVars, saveVars, putVars, writers>>

\* Filesystem::read: do_read, EIO on any Err.
Read(ino, offset, size) ==
  /\ gatofs.mounted
  /\ Replied([cmd |-> "read", ino |-> ino, offset |-> offset, size |-> size],
             LET read == do_read(gatofs, store, config[gatofs.repo], ino, offset, size)
             IN IF read.result = "Err" THEN [result |-> "EIO", error |-> read.error]
                ELSE read)
  /\ UNCHANGED <<store, work, repoVars, saveVars, putVars, writers>>

VfsPaths == {<<(<<"a">>)>>, <<(<<"a">>), (<<"d", "b">>)>>}

\* No object is removed or rewritten here, so what the mounted tree names is
\* the same whatever is added later: adds and commits are taken before the mount.
\* lookup is called with the names a tree entry may have ("." and ".." are
\* resolved by the kernel).
NextVfs ==
  \/ \E r \in Repos \ BranchingRepos :
       ~ gatofs.mounted /\ AddW(r, <<(<<"a">>)>>, StatNow, {})
  \/ \E r \in BranchingRepos : \E paths \in VfsPaths :
       ~ gatofs.mounted /\ AddW(r, paths, StatNow, {})
  \/ \E r \in BranchingRepos : ~ gatofs.mounted /\ CommitOk(r)
  \/ \E r \in BranchingRepos : Mount(r)
  \/ \E ino \in 1..MaxInode : \E offset \in 0..MaxOffset : Readdir(ino, offset)
  \/ \E parent \in 1..MaxInode : \E name \in Range(NameOrder) : Lookup(parent, name)
  \/ \E ino \in 1..MaxInode : Getattr(ino)
  \/ \E ino \in 1..MaxInode : Open(ino)
  \/ \E ino \in 1..MaxInode : \E offset \in 0..MaxOffset : \E size \in 0..MaxSize :
       Read(ino, offset, size)

SpecVfs == Init /\ [][NextVfs]_vars

(***************************************************************************)
(* SpecMerge: Tree::merge as a function of three root trees.  The store    *)
(* holds the blobs and subtrees the trees name; the trees are drawn from   *)
(* every combination of an entry a (absent or a Blob) and an entry d       *)
(* (absent, a Blob or a Tree), and the call records what it returned.      *)
(***************************************************************************)
SubTree(entries) == Tree("d", entries)
SubTrees ==
  {SubTree(<<>>), SubTree(<<TreeEntryBlob("b", compute_hash(RawA))>>),
   SubTree(<<TreeEntryBlob("b", compute_hash(RawB))>>)}

EntriesA == {None} \cup {Some(TreeEntryBlob("a", compute_hash(raw))) : raw \in {RawA, RawB}}
EntriesD ==
  {None} \cup {Some(TreeEntryBlob("d", compute_hash(raw))) : raw \in {RawA, RawB}}
         \cup {Some(TreeEntryTree("d", compute_hash(sub))) : sub \in SubTrees}

RootTrees == {Tree("root", ea \o ed) : ea \in EntriesA, ed \in EntriesD}

\* The objects the root trees name, as add_file and Tree::save wrote them.
MergeStore ==
  [h \in {compute_hash(raw) : raw \in {RawA, RawB}} |->
     BlobNormal(compress("Zstd", CHOOSE raw \in {RawA, RawB} : compute_hash(raw) = h))]
    @@ [h \in {compute_hash(sub) : sub \in SubTrees} |->
          CHOOSE sub \in SubTrees : compute_hash(sub) = h]

MergeInputs(b, c, t) == NoResult @@ [base |-> b, current |-> c, target |-> t]

InitMerge ==
  /\ store = MergeStore
  /\ config = (1 :> "Zlib") @@ (2 :> "Zstd")
  /\ head = [r \in Repos |-> "master"]
  /\ refs = [r \in Repos |-> <<>>]
  /\ index = [r \in Repos |-> NoIndex]
  /\ nAdds = 0
  /\ nCommits = 0
  /\ pc = [r \in Repos |-> "idle"]
  /\ pending = [r \in Repos |-> NoPending]
  /\ orphan = [r \in Repos |-> None]
  /\ wr = NoPut
  /\ first = [h \in PutHashes |-> None]
  /\ lastPut = NoResult
  /\ work = [r \in Repos |-> NoFiles]
  /\ gatofs = NotMounted
  /\ writers = [w \in Writers |-> NoPut]
  /\ ret \in {MergeInputs(b, c, t) : b \in RootTrees, c \in RootTrees, t \in RootTrees}

\* What Tree::merge returned: Ok(tree) or Err(error), with its arguments.
TreeMergeReturned(r, inputs, res) ==
  Returned("merge_trees", r, res.ok)
    @@ [base |-> inputs.base, current |-> inputs.current, target |-> inputs.target,
        tree |-> IF res.ok THEN Some(res.tree) ELSE None,
        error |-> IF res.ok THEN NoError ELSE res.error]

TreeMergeDone(r, res) ==
  /\ store' = res.store
  /\ ret' = TreeMergeReturned(r, ret, res)

TreeMerge(r, order) ==
  /\ ret.result = "none"
  /\ TreeMergeDone(r, tree_merge(ret.base, ret.current, ret.target, store, config[r], order))
  /\ UNCHANGED <<config, head, refs, index, nAdds, nCommits, saveVars, putVars, procVars, work>>

NextMerge == \E r \in BranchingRepos : \E order \in BranchOrders : TreeMerge(r, order)

SpecMerge == InitMerge /\ [][NextMerge]_vars

(***************************************************************************)
(* What a hash names.  BLAKE3 being modelled as injective, the object a    *)
(* hash was computed from is read off the hash; these operators follow the *)
(* references of an object without reading the store.                      *)
(***************************************************************************)
hashed(hash) == hash.h

\* A blob and, for a Chunked envelope, its chunks.
blob_objects(hash) ==
  {hash} \cup (IF Tag(hashed(hash)) = "ChunksMap" THEN Range(hashed(hash).path) ELSE {})

\* A tree, its subtrees, its blobs and their chunks.
RECURSIVE tree_objects(_)
tree_objects(hash) ==
  {hash} \cup
    (IF IsTree(hashed(hash))
     THEN UNION {IF e.kind = "Tree" THEN tree_objects(e.hash) ELSE blob_objects(e.hash) :
                   e \in Range(hashed(hash).entries)}
     ELSE {})

\* The parents of a commit: parent_hash of a V1 commit, parent_hash1 and
\* parent_hash2 of a merged commit.
all_parents(commit) ==
  IF commit.tag = "V1" THEN Range(commit.parent_hash)
  ELSE {commit.parent_hash1, commit.parent_hash2}

\* A commit and its ancestors through every parent.
RECURSIVE ancestors(_)
ancestors(hash) ==
  {hash} \cup (IF IsCommit(hashed(hash))
               THEN UNION {ancestors(p) : p \in all_parents(hashed(hash))}
               ELSE {})

\* Everything reachable from a commit: its ancestors and their trees' objects.
commit_objects(hash) ==
  ancestors(hash) \cup
    UNION {tree_objects(hashed(c).tree_hash) : c \in {x \in ancestors(hash) : IsCommit(hashed(x))}}

\* The commits and the objects reachable from the refs of repository r.
repo_commits(r) == UNION {ancestors(refs[r][b]) : b \in DOMAIN refs[r]}
repo_objects(r) == UNION {commit_objects(refs[r][b]) : b \in DOMAIN refs[r]}

\* What repository r references: what its refs reach and what its reachable
\* commits list as dependencies.
repo_references(r) ==
  repo_objects(r) \cup UNION {hashed(c).dependencies : c \in repo_commits(r)}

staged_somewhere == \E r \in loaded_repos : index[r] # NoIndex

(***************************************************************************)
(* Properties of the store under Spec and SpecQuiet.                       *)
(***************************************************************************)
\* C2.  Store integrity: every object of the store hashes to the key it is
\* stored under.
C2_StoreIntegrity == \A k \in DOMAIN store : compute_hash(store[k]) = k

\* C3.  Reachability: with gc run only while nothing is staged (SpecQuiet), every
\* object reachable from a branch ref of a repository of the registry, through
\* every parent of every commit, is in the store.
C3_Reachability == \A r \in loaded_repos : repo_objects(r) \subseteq DOMAIN store

\* C4.  Cross-repository gc: a gc run after repository 1 has been deleted removes
\* every object only repository 1 referenced and keeps every object reachable
\* from a branch of repository 2.
C4_CrossRepoGc ==
  [][(config[1] = NoConfig /\ config[2] # NoConfig /\ Gc)
       => \A k \in DOMAIN store :
            /\ k \in repo_references(1) \ repo_references(2) => k \notin DOMAIN store'
            /\ k \in repo_objects(2) => k \in DOMAIN store']_vars

\* C5.  The gc guard: a gc run while some repository has staged files deletes
\* no object.
C5_GcGuard == [][(staged_somewhere /\ Gc) => store' = store]_vars

C7_DependenciesPresent ==
  \A r \in loaded_repos :
    \A c \in repo_commits(r) :
      IsCommit(hashed(c)) => hashed(c).dependencies \subseteq DOMAIN store

(***************************************************************************)
(* Properties of put under SpecPut.                                        *)
(***************************************************************************)
\* C1.  put never overwrites: as long as it is not removed, an object holds the
\* bytes of the first put that wrote it, and every later put of its hash
\* returns Ok.
C1_PutNeverOverwrites ==
  /\ \A hash \in PutHashes :
       first[hash] # None => exist(store, hash) /\ store[hash] = first[hash][1]
  /\ (lastPut.result # "none" /\ lastPut.later) => lastPut.result = "Ok"

\* A later put of other bytes under a hash has returned Ok and the object still
\* holds the first bytes.
C1_Witness ==
  /\ lastPut.result = "Ok"
  /\ lastPut.later
  /\ first[lastPut.hash] # None
  /\ first[lastPut.hash][1] # lastPut.data
  /\ store[lastPut.hash] = first[lastPut.hash][1]

\* C10.  put is atomic with respect to crashes: once the process has died during
\* put(h, bytes), either no object is stored under h or the object is all of bytes.
C10_PutAtomic ==
  lastPut.result = "died" =>
    \/ ~exist(store, lastPut.hash)
    \/ store[lastPut.hash] = lastPut.data

(***************************************************************************)
(* Properties of Commit::save under SpecSave.                              *)
(***************************************************************************)
\* Every branch ref of every repository names a commit that is in the store.
refs_resolve == \A r \in Repos : \A b \in DOMAIN refs[r] : can_load(store, refs[r][b])

\* The objects reachable from the refs of all repositories.
all_ref_objects == UNION {repo_objects(r) : r \in Repos}

\* C8.  Commit::save puts the commit before it writes the ref: after every step
\* every ref names a commit in the store, and a save whose put fails leaves the
\* refs as they were.
C8_SaveOrder ==
  [][/\ refs_resolve'
     /\ \A r \in Repos : (pc[r] = "put" /\ pc'[r] = "idle") => refs' = refs]_vars

\* A save has put its commit and not yet written the ref: the ref still names
\* the previous commit.
C8_Witness ==
  \E r \in Repos :
    /\ pc[r] = "write_ref"
    /\ exist(store, compute_hash(pending[r].commit))
    /\ get_parent_hash(r) # None
    /\ get_parent_hash(r) # Some(compute_hash(pending[r].commit))

index_names(ix) ==
  IF ix = NoIndex THEN {}
  ELSE UNION {blob_objects(ix.entries[p].hash) : p \in DOMAIN ix.entries}

\* The trees a root tree names, the root included.
trees_of(hash) == {o \in tree_objects(hash) : IsTree(hashed(o))}

\* The tip of the active branch of repository r after the step.
tip_after(r) == refs'[r][head'[r]]

an_add_returns == nAdds' = nAdds + 1
a_commit_returns == nCommits' = nCommits + 1

\* C11.  Write failures of the store are not swallowed: an add that returns Ok
\* leaves an index whose entries name only objects that are in the store, and a
\* commit that returns Ok leaves a ref whose commit names only trees that are in
\* the store; an add that returns an error leaves the index as it was and a
\* commit that returns an error leaves the refs as they were.
C11_WriteFailuresSurface ==
  [][/\ an_add_returns =>
          IF ret'.result = "Ok"
          THEN index_names(index'[ret'.repo]) \subseteq DOMAIN store'
          ELSE index' = index
     /\ a_commit_returns =>
          IF ret'.result = "Ok"
          THEN trees_of(hashed(tip_after(ret'.repo)).tree_hash) \subseteq DOMAIN store'
          ELSE refs' = refs]_vars

\* The processing of `path` fails in an add of repository r: the file is absent,
\* or the write of the blob add_file or add_as_chunk puts fails.
file_fails(r, path, bad) == ~add_path_w(store, config[r], work[r], path, bad).ok

\* The entries the index of repository r had, an absent index having none.
entries_before(r) == index_load_or_new(index[r]).entries

\* C12.  Add is all-or-nothing on the index: when the processing of one of the
\* paths fails, add returns an error and the persisted index of every repository
\* is what it was; otherwise add returns Ok and the persisted index has an
\* entry for every path given and keeps the entries it had for the other paths.
C12_AddAllOrNothing ==
  [][an_add_returns =>
       IF \E i \in DOMAIN ret'.paths : file_fails(ret'.repo, ret'.paths[i], ret'.bad)
       THEN ret'.result = "Err" /\ index' = index
       ELSE /\ ret'.result = "Ok"
            /\ index'[ret'.repo] # NoIndex
            /\ Range(ret'.paths) \subseteq DOMAIN index'[ret'.repo].entries
            /\ \A p \in DOMAIN entries_before(ret'.repo) \ Range(ret'.paths) :
                 /\ p \in DOMAIN index'[ret'.repo].entries
                 /\ index'[ret'.repo].entries[p] = entries_before(ret'.repo)[p]]_vars

\* An add of two paths has failed on one of them after it had written the
\* objects of the other, and no index has been saved.
C12_Witness ==
  /\ ret.result = "Err"
  /\ ret.cmd = "add"
  /\ Len(ret.paths) = 2
  /\ \A r \in Repos : index[r] = NoIndex /\ refs[r] = <<>>
  /\ store # <<>>

\* The objects a step has created.
new_objects == DOMAIN store' \ DOMAIN store

\* The hashes of the distinct chunks of a file that are not in the store.
new_chunks(buffer) == {compute_hash(c) : c \in Range(cut(buffer))} \ DOMAIN store

\* The file an add of the single path ret'.paths[1] has read.
file_added == work[ret'.repo][ret'.paths[1]]

\* An add of one path has returned Ok and no write has failed while it ran.
one_file_added ==
  /\ an_add_returns
  /\ ret'.result = "Ok"
  /\ ret'.bad = {}
  /\ Len(ret'.paths) = 1

\* C13.  Dedup on write: an add of a small file creates one object when the hash
\* of its content is not in the store and none when it is; an add of a large
\* file creates at most one object for each distinct chunk that is not in the
\* store, and its envelope; an add of an unchanged file that follows its first
\* add creates none.  No write of the store fails during either add.
C13_DedupOnWrite ==
  [][one_file_added =>
       /\ IF Len(file_added.raw) < LargeLen
          THEN Cardinality(new_objects)
                 = (IF exist(store, compute_hash(file_added)) THEN 0 ELSE 1)
          ELSE Cardinality(new_objects) <= Cardinality(new_chunks(file_added)) + 1
       /\ ret'.repeats => new_objects = {}]_vars

\* The large file b, whose chunks are 2, 2 and 1, has been added twice in a row
\* without a failure: the store holds its two distinct chunks and its envelope
\* and nothing else.
C13_Witness ==
  /\ ret.result = "Ok"
  /\ ret.cmd = "add"
  /\ ret.paths = <<(<<"b">>)>>
  /\ ret.bad = {}
  /\ ret.repeats
  /\ nAdds = 2
  /\ Cardinality(DOMAIN store) = 3

\* The entry an add of one path has saved names a Chunked envelope: the file
\* went through add_as_chunk.  The entry add_file makes names the raw bytes.
chunked_path_taken == Tag(hashed(index'[ret'.repo].entries[ret'.paths[1]].hash)) = "ChunksMap"

\* C14.  Path selection by size: add takes the small-file path for a file whose
\* size is at most the threshold (LargeLen blocks), that size included, and the
\* chunked path for a file above it.
C14_PathBySize ==
  [][one_file_added => (chunked_path_taken <=> Len(file_added.raw) > LargeLen)]_vars

\* The (path, content hash) pairs of an index.
index_content(ix) == {<<p, ix.entries[p].hash>> : p \in DOMAIN ix.entries}

\* C15.  Tree building depends on the content of the index only: two persisted
\* indexes with the same (path, content hash) pairs give the same root tree
\* hash, whatever the adds that built them, the size, mtime and mode of their
\* entries and their dependencies.
C15_TreeOfIndexContent ==
  \A r1, r2 \in Repos :
    (/\ index[r1] # NoIndex
     /\ index[r2] # NoIndex
     /\ index_content(index[r1]) = index_content(index[r2]))
      => create_from_index(index[r1]).tree_hash = create_from_index(index[r2]).tree_hash

\* Two indexes hold a and d/b with the same content hashes; they were built by
\* different adds and differ in the mtime and mode of an entry and in their
\* dependencies.
C15_Witness ==
  /\ \A r \in Repos : index[r] # NoIndex /\ DOMAIN index[r].entries = Paths
  /\ index_content(index[1]) = index_content(index[2])
  /\ index[1].dependencies # index[2].dependencies
  /\ \E p \in Paths : /\ index[1].entries[p].mtime # index[2].entries[p].mtime
                      /\ index[1].entries[p].mode # index[2].entries[p].mode

\* The files of the tree under `hash`, as <<path, blob hash>> pairs, paths
\* starting with `prefix`.
RECURSIVE tree_files(_, _)
entry_files(prefix, e) ==
  IF e.kind = "Tree" THEN tree_files(Append(prefix, e.name), e.hash)
  ELSE {<<Append(prefix, e.name), e.hash>>}

tree_files(prefix, hash) ==
  UNION {entry_files(prefix, e) : e \in Range(hashed(hash).entries)}

\* The codecs whose output an object carries.
codecs_of(bytes) ==
  IF is_compressed(bytes) THEN {bytes.codec}
  ELSE IF Tag(bytes) = "Normal" THEN {bytes.content.codec}
  ELSE {}

written_under(st, codec) == \A h \in DOMAIN st : codecs_of(st[h]) \subseteq {codec}

\* The last command was a checkout in repository r of an existing commit.
checked_out(r) ==
  /\ ret.result # "none"
  /\ ret.cmd = "checkout"
  /\ ret.repo = r
  /\ ret.commit # None

\* Adding again, into a new index, the paths of the commit checked out.
readd(r, files) ==
  add_all_w(store, index_load_or_new(NoIndex), config[r], work[r],
            SetToSeq({f[1] : f \in files}), StatNow, {})

readd_commits_tree(res, tree_hash) ==
  res.ok /\ create_from_index(res.index).tree_hash = tree_hash

\* C16.  Round trip commit -> checkout -> add -> commit: after a checkout of a
\* commit made from staged files, with no index left, adding the paths of that
\* commit again succeeds and gives an index whose root tree hash is the tree
\* hash of the commit.  Stated for stores written under the codec of the
\* repository only.
C16_CheckoutRoundTrip ==
  \A r \in Repos :
    (checked_out(r) /\ index[r] = NoIndex /\ written_under(store, config[r]))
      => readd_commits_tree(readd(r, tree_files(<<>>, store[ret.commit[1]].tree_hash)),
                            store[ret.commit[1]].tree_hash)

\* The content of the file a blob hash was computed for: the raw bytes hashed,
\* or the chunks of a Chunked envelope one after the other.
RECURSIVE chunks_content(_)
chunks_content(hashes) ==
  IF hashes = <<>> THEN <<>>
  ELSE hashed(Head(hashes)).raw \o chunks_content(Tail(hashes))

original(hash) ==
  IF Tag(hashed(hash)) = "ChunksMap" THEN [raw |-> chunks_content(hashed(hash).path)]
  ELSE hashed(hash)

\* No large file was ever added: the store holds no Chunked envelope.
small_files_only(st) == \A h \in DOMAIN st : Tag(st[h]) # "ChunksMap"

file_restored(r, f) == f[1] \in DOMAIN work[r] /\ work[r][f[1]] = original(f[2])

\* C17.  Content round trip per repository on the shared store: a checkout of
\* a commit of the repository returns Ok and leaves every file of the commit's
\* tree with the bytes that were added, whatever the other repositories did on
\* the store.  Stated for stores that hold small files only.
C17_ContentRoundTrip ==
  \A r \in Repos :
    (checked_out(r) /\ small_files_only(store))
      => /\ ret.result = "Ok"
         /\ \A f \in tree_files(<<>>, store[ret.commit[1]].tree_hash) : file_restored(r, f)

\* A merge has returned Ok in repository r: a MergedCommitV1 is the new tip.
merge_returns(r) ==
  /\ nCommits' = nCommits + 1
  /\ refs'[r] # refs[r]
  /\ Tag(store'[tip_after(r)]) = "MergedCommitV1"

\* The root tree of a commit.
root_tree(st, commit_hash) == st[st[commit_hash].tree_hash]

\* The rules of the three-way merge for one name: b, c, t are the entry hashes
\* in base, current and target, ce and te the entries of current and target,
\* me the entry of the merged tree (None where there is none).
entry_resolved(b, c, t, ce, te, me) ==
  IF c = t THEN me = ce
  ELSE IF c = b THEN me = te
  ELSE IF t = b THEN me = ce
  ELSE TRUE

name_resolved(name, base_tree, current, target, merged) ==
  entry_resolved(get_entry_hash(base_tree, name), get_entry_hash(current, name),
                 get_entry_hash(target, name), get_entry(current, name),
                 get_entry(target, name), get_entry(merged, name))

entry_names(tree) == {e.name : e \in Range(tree.entries)}

tree_resolved(base_tree, current, target, merged) ==
  /\ \A name \in all_filenames(base_tree, current, target) :
       name_resolved(name, base_tree, current, target, merged)
  /\ entry_names(merged) \subseteq all_filenames(base_tree, current, target)
  /\ Len(merged.entries) = Cardinality(entry_names(merged))

merge_resolved(st, c, t, merged) ==
  tree_resolved(root_tree(st, base(st, c, t)[1]), root_tree(st, c), root_tree(st, t), merged)

\* C18.  Merge resolution for the names only one side changed: when a merge
\* returns, every name of the base, current and target root trees has in the
\* merged root tree current's entry if c = t, else target's entry if c = b,
\* else current's entry if t = b (no entry where that side has none), and the
\* merged tree has no other entry and no name twice.
C18_MergeResolution ==
  [][\A r \in Repos :
       merge_returns(r)
         => merge_resolved(store, get_parent_hash(r)[1],
                           store'[tip_after(r)].parent_hash2,
                           root_tree(store', tip_after(r)))]_vars

\* The tip m of a repository is a merged commit whose parents, base and trees
\* are in the store.
merged_at_tip(r) ==
  /\ get_parent_hash(r) # None
  /\ can_load(store, get_parent_hash(r)[1])
  /\ Tag(store[get_parent_hash(r)[1]]) = "MergedCommitV1"

merge_inputs_loaded(st, m) ==
  /\ chain_ok(st, m.parent_hash1)
  /\ chain_ok(st, m.parent_hash2)
  /\ base(st, m.parent_hash1, m.parent_hash2) # None
  /\ can_load_tree(st, m.tree_hash)
  /\ can_load_tree(st, st[m.parent_hash1].tree_hash)
  /\ can_load_tree(st, st[m.parent_hash2].tree_hash)
  /\ can_load_tree(st, st[base(st, m.parent_hash1, m.parent_hash2)[1]].tree_hash)

\* Target changed the name and current did not; target's entry te (None when
\* target deleted the name) is what the merged tree has.
took_target(name, base_tree, current, target, merged, te) ==
  /\ get_entry_hash(current, name) # get_entry_hash(target, name)
  /\ get_entry_hash(current, name) = get_entry_hash(base_tree, name)
  /\ get_entry(target, name) = te
  /\ get_entry(merged, name) = te

target_added_and_deleted(base_tree, current, target, merged) ==
  /\ \E name \in entry_names(target) :
       took_target(name, base_tree, current, target, merged, get_entry(target, name))
  /\ \E name \in entry_names(current) :
       took_target(name, base_tree, current, target, merged, None)

merged_from(st, m) ==
  target_added_and_deleted(root_tree(st, base(st, m.parent_hash1, m.parent_hash2)[1]),
                           root_tree(st, m.parent_hash1), root_tree(st, m.parent_hash2),
                           st[m.tree_hash])

\* A merge has taken an entry target added and dropped an entry target deleted.
C18_Witness ==
  \E r \in Repos :
    /\ merged_at_tip(r)
    /\ merge_inputs_loaded(store, store[get_parent_hash(r)[1]])
    /\ merged_from(store, store[get_parent_hash(r)[1]])

\* A run of Tree::merge on the root trees of b, c and t that iterates the names
\* in `order` gives the tree `merged`.
run_gives(res, merged) == res.ok /\ res.tree = merged

merge_run(st, b, c, t, codec, order) ==
  tree_merge(root_tree(st, b), root_tree(st, c), root_tree(st, t), st, codec, order)

every_run_gives(st, c, t, codec, merged) ==
  \A order \in NameOrders :
    run_gives(merge_run(st, base(st, c, t)[1], c, t, codec, order), merged)

\* C19.  Merge resolution is deterministic: when a merge returns, every run of
\* Tree::merge on the same base, current and target trees and the same store
\* gives the merged tree of this run, with the same entries in the same order
\* and so the same tree hash.
C19_MergeDeterministic ==
  [][\A r \in Repos :
       merge_returns(r)
         => every_run_gives(store, get_parent_hash(r)[1],
                            store'[tip_after(r)].parent_hash2, config[r],
                            root_tree(store', tip_after(r)))]_vars

\* merge(A, A) run with the names iterated in `order`: the base of A and A is
\* found, the trees load, Tree::merge returns and the merged commit carries
\* the tree hash of A.
self_merge_tree(st, a, res) == res.ok /\ compute_hash(res.tree) = st[a].tree_hash

self_merge_from(st, a, b, codec, order) ==
  /\ b # None
  /\ can_load_tree(st, st[b[1]].tree_hash)
  /\ self_merge_tree(st, a, merge_run(st, b[1], a, a, codec, order))

self_merge(st, a, codec, order) == self_merge_from(st, a, base(st, a, a), codec, order)

\* The tip of the active branch of r is also the tip of branch `target`, and
\* the commit, its ancestors and its tree are in the store.
same_tip(r, target) ==
  /\ can_run(r)
  /\ get_parent_hash(r) # None
  /\ read_ref(r, target) = get_parent_hash(r)
  /\ chain_ok(store, get_parent_hash(r)[1])
  /\ can_load_tree(store, store[get_parent_hash(r)[1]].tree_hash)

\* C20.  merge(A, A): merging a branch whose tip is the current tip A, a root
\* commit or not, with a tree of one or more entries, produces a merged commit
\* whose tree hash is the tree hash of A.
C20_MergeWithItself ==
  \A r \in Repos : \A target \in Branches :
    same_tip(r, target)
      => \A order \in NameOrders :
           self_merge(store, get_parent_hash(r)[1], config[r], order)

\* The first commit on the chain of hash_a's ancestors, taken from hash_a's
\* parent on, that is also an ancestor of hash_b.
common_base(st, hash_a, hash_b) ==
  LET on_both == SelectSeq(parents_hashes(st, hash_a),
                           LAMBDA x : x \in Range(parents_hashes(st, hash_b)))
  IN IF on_both = <<>> THEN None ELSE Some(on_both[1])

share_no_commit(st, hash_a, hash_b) ==
  Range(parents_hashes(st, hash_a)) \cap Range(parents_hashes(st, hash_b)) = {}

\* The commits of the store whose chain of ancestors loads.
loadable_commits(st) == {h \in DOMAIN st : chain_ok(st, h)}

base_is_common_base(st, hash_a, hash_b) ==
  /\ base(st, hash_a, hash_b) = common_base(st, hash_a, hash_b)
  /\ (base(st, hash_a, hash_b) = None) <=> share_no_commit(st, hash_a, hash_b)

\* C24.  Commit::base(A, B) is the first commit along A's parent_hash chain,
\* from A's parent on, that is also on B's chain of ancestors, and it is None
\* exactly when the two chains share no commit.
C24_CommonBase ==
  \A hash_a, hash_b \in loadable_commits(store) : base_is_common_base(store, hash_a, hash_b)

diverged(st, hash_a, hash_b) ==
  /\ hash_a \notin Range(chain(st, hash_b))
  /\ hash_b \notin Range(chain(st, hash_a))
  /\ base(st, hash_a, hash_b) # None

\* Two commits, neither an ancestor of the other, have a base, and a commit
\* with two ancestors is in the store.
C24_Witness ==
  /\ \E hash_a, hash_b \in loadable_commits(store) : diverged(store, hash_a, hash_b)
  /\ \E h \in loadable_commits(store) : Len(parents_hashes(store, h)) >= 2

\* gato commit has returned Ok in repository r: a V1 commit is the new tip of
\* the active branch.
commit_returns(r) ==
  /\ nCommits' = nCommits + 1
  /\ refs'[r] # refs[r]
  /\ Tag(store'[tip_after(r)]) = "V1"

\* C29.  Every commit made by gato commit has as parent_hash the value the ref
\* of the branch HEAD names held just before (absent when that ref did not
\* exist), and the ref then holds the hash of the new commit, which is in the
\* store; and following parent_hash from the tip of any branch of a repository
\* loads every commit on the way and ends at a commit without parent.
C29_ParentIsPreviousTip ==
  [][\A r \in Repos :
       /\ commit_returns(r)
            => /\ store'[tip_after(r)].parent_hash = get_parent_hash(r)
               /\ tip_after(r) = compute_hash(store'[tip_after(r)])
               /\ refs' = write_ref(r, tip_after(r))
       /\ r \in loaded_repos'
            => \A b \in DOMAIN refs'[r] : chain_ok(store', refs'[r][b])]_vars

\* The active branch of a repository had no ref, another branch had one, and a
\* commit started a second parentless history there.
C29_Witness ==
  \E r \in Repos :
    /\ get_parent_hash(r) # None
    /\ can_load(store, get_parent_hash(r)[1])
    /\ store[get_parent_hash(r)[1]].tag = "V1"
    /\ store[get_parent_hash(r)[1]].parent_hash = None
    /\ \E b \in DOMAIN refs[r] :
         /\ b # get_active_branche(r)
         /\ chain_ok(store, refs[r][b])
         /\ get_parent_hash(r)[1] \notin Range(chain(store, refs[r][b]))
         /\ Len(chain(store, refs[r][b])) >= 2

\* C27.  Index lifecycle.  No repository starts with an index; an add that
\* returns Ok leaves the index of its repository in place, a commit that
\* returns Ok deletes it, and nothing else creates or deletes an index: an add
\* or a commit that fails leaves every index as it was, and a commit that fails
\* leaves the refs as they were.  So a repository has an index exactly when an
\* add has succeeded since its last successful commit.
C27_IndexLifecycle ==
  [][/\ (an_add_returns /\ ret'.result = "Ok")
          => /\ index'[ret'.repo] # NoIndex
             /\ \A r \in Repos \ {ret'.repo} : index'[r] = index[r]
     /\ (a_commit_returns /\ ret'.result = "Ok")
          => /\ index[ret'.repo] # NoIndex
             /\ index'[ret'.repo] = NoIndex
             /\ \A r \in Repos \ {ret'.repo} : index'[r] = index[r]
     /\ (a_commit_returns /\ ret'.result = "Err") => (index' = index /\ refs' = refs)
     /\ (an_add_returns /\ ret'.result = "Err") => index' = index
     /\ (~an_add_returns /\ ~a_commit_returns) => index' = index]_vars

\* After a commit that succeeded and an add, a commit has failed on its put:
\* the index is still there and the ref still names the earlier commit.
C27_Witness ==
  /\ ret.result = "Err"
  /\ ret.cmd = "commit"
  /\ ret.bad # {}
  /\ index[ret.repo] # NoIndex
  /\ get_parent_hash(ret.repo) # None
  /\ get_parent_hash(ret.repo)[1] \in DOMAIN store
  /\ nCommits = 2

\* The index gato commit loads holds no entry.
nothing_staged(r) == DOMAIN entries_before(r) = {}

empty_root_committed(r) ==
  /\ refs'[r] # refs[r]
  /\ tip_after(r) \in DOMAIN store'
  /\ store'[tip_after(r)].tree_hash = compute_hash(Tree("root", <<>>))
  /\ store'[tip_after(r)].tree_hash \in DOMAIN store'

\* C28.  Commit with nothing staged succeeds: when no write fails and the
\* index holds no entry, be it an empty index an add of no file has saved or
\* no index file at all, commit returns Ok, the active branch ref names the new
\* commit, and the root tree of that commit is the tree named root with no
\* entry, which is in the store.
C28_EmptyCommit ==
  [][(a_commit_returns /\ ret'.bad = {} /\ nothing_staged(ret'.repo))
       => (ret'.result = "Ok" /\ empty_root_committed(ret'.repo))]_vars

checkout_returns == ret'.result # "none" /\ ret'.cmd = "checkout"

\* The paths the tree of the commit a checkout was given names; none when the
\* commit index is unknown.
named_paths(st, found) ==
  IF found = None THEN {} ELSE {f[1] : f \in tree_files(<<>>, st[found[1]].tree_hash)}

file_untouched(wd, after, p) ==
  /\ p \in DOMAIN wd <=> p \in DOMAIN after
  /\ p \in DOMAIN wd => after[p] = wd[p]

others_untouched(wd, after, named) ==
  \A p \in (DOMAIN wd \cup DOMAIN after) \ named : file_untouched(wd, after, p)

\* C30.  Checkout writes named paths only: a checkout leaves the store, the
\* refs, HEAD, the indexes and the working directories of the other
\* repositories as they were, creates, removes or changes no file other than
\* those the tree of the commit names, and when it returns Ok every path the
\* tree names is a file of the working directory.
C30_CheckoutWritesNamedPaths ==
  [][checkout_returns =>
       /\ UNCHANGED <<store, refs, head, index, config>>
       /\ \A r \in Repos \ {ret'.repo} : work'[r] = work[r]
       /\ others_untouched(work[ret'.repo], work'[ret'.repo], named_paths(store, ret'.commit))
       /\ ret'.result = "Ok" => named_paths(store, ret'.commit) \subseteq DOMAIN work'[ret'.repo]]_vars

\* A checkout has returned Ok after it restored the file a, the only path of
\* the commit's tree, and the file d/b the user had removed was not created.
C30_Witness ==
  /\ ret.result = "Ok"
  /\ ret.cmd = "checkout"
  /\ ret.commit # None
  /\ ret.written = {<<"a">>}
  /\ named_paths(store, ret.commit) = {<<"a">>}
  /\ DOMAIN work[ret.repo] = {<<"a">>}

(***************************************************************************)
(* Branch deletion and creation (SpecBranch).                              *)
(***************************************************************************)
a_delete_returns == ret'.cmd = "delete-branch"

refs_but(r, name) == [b \in DOMAIN refs[r] \ {name} |-> refs[r][b]]

delete_refused(r, name) ==
  /\ ret'.result = "Err"
  /\ ret'.error = [kind |-> "ActiveBranchDeletionError"]
  /\ refs' = refs

delete_removes(r, name) ==
  /\ ret'.result = "Ok"
  /\ refs'[r] = refs_but(r, name)
  /\ \A q \in Repos \ {r} : refs'[q] = refs[q]

\* C25: delete_branch(name) of the active branch returns the
\* active-branch-deletion error and leaves every ref in place; of any other
\* existing branch it removes exactly that ref; in both cases HEAD, the other
\* refs, the index and the object store are unchanged.
C25_DeleteBranch ==
  [][a_delete_returns =>
       /\ ret'.name = get_active_branche(ret'.repo) => delete_refused(ret'.repo, ret'.name)
       /\ (/\ ret'.name # get_active_branche(ret'.repo)
           /\ ret'.name \in DOMAIN refs[ret'.repo]) => delete_removes(ret'.repo, ret'.name)
       /\ head' = head
       /\ index' = index
       /\ store' = store]_vars

\* A branch other than the active one, which has commits of its own, was deleted
\* while the active branch keeps its ref.
C25_Witness ==
  /\ ret.result = "Ok"
  /\ ret.cmd = "delete-branch"
  /\ ret.name \notin DOMAIN refs[ret.repo]
  /\ head[ret.repo] \in DOMAIN refs[ret.repo]
  /\ head[ret.repo] # ret.name
  /\ nCommits >= 2

a_new_branch_returns == ret'.cmd = "new-branch"

new_branch_copies(r, name) ==
  /\ ret'.result = "Ok"
  /\ DOMAIN refs'[r] = DOMAIN refs[r] \cup {name}
  /\ refs'[r][name] = refs[r][get_active_branche(r)]
  /\ \A b \in DOMAIN refs[r] \ {name} : refs'[r][b] = refs[r][b]
  /\ \A q \in Repos \ {r} : refs'[q] = refs[q]

new_branch_fails(r, name) ==
  /\ ret'.result = "Err"
  /\ ret'.error = [kind |-> "ReadError"]
  /\ refs' = refs

\* C26: new_branch(name) sets the ref `name` to the tip the active branch has at
\* the call, whether or not `name` existed, and leaves HEAD, every other ref, the
\* index and the object store unchanged; when the active branch has no ref it
\* fails with a read error and creates no ref.
C26_NewBranch ==
  [][a_new_branch_returns =>
       /\ IF get_active_branche(ret'.repo) \in DOMAIN refs[ret'.repo]
          THEN new_branch_copies(ret'.repo, ret'.name)
          ELSE new_branch_fails(ret'.repo, ret'.name)
       /\ head' = head
       /\ index' = index
       /\ store' = store]_vars

\* On branch b, ahead of master, new_branch("master") has overwritten master's
\* ref with b's tip.
C26_Witness ==
  /\ ret.result = "Ok"
  /\ ret.cmd = "new-branch"
  /\ ret.name = "master"
  /\ head[ret.repo] = "b"
  /\ refs[ret.repo]["master"] = refs[ret.repo]["b"]
  /\ Tag(store[refs[ret.repo]["b"]]) = "V1"
  /\ store[refs[ret.repo]["b"]].parent_hash # None

(***************************************************************************)
(* Merges of diverged branches (SpecBranch).                               *)
(***************************************************************************)
a_merge_attempt_returns == ret'.cmd = "merge"

\* The tips the merge that returns in this step was given.
current_tip == get_parent_hash(ret'.repo)[1]
target_tip == read_ref(ret'.repo, ret'.name)[1]

\* Base holds a.txt alone, current holds a.txt with another content and
\* target's commit adds b.txt, leaving a.txt as base has it if it lists it.
changed_here_added_there(bt, ct, tt) ==
  /\ entry_names(bt) = {"a"}
  /\ entry_names(ct) = {"a"}
  /\ get_entry_hash(ct, "a") # get_entry_hash(bt, "a")
  /\ get_entry(tt, "b") # None
  /\ entry_names(tt) \subseteq {"a", "b"}
  /\ get_entry_hash(tt, "a") \in {None, get_entry_hash(bt, "a")}

\* c is a commit m2 on m1, t is one commit on m1 that adds b.txt.
diverged_by_one_commit(st, c, t) ==
  /\ Tag(st[c]) = "V1"
  /\ Tag(st[t]) = "V1"
  /\ st[c].parent_hash # None
  /\ st[t].parent_hash = st[c].parent_hash
  /\ changed_here_added_there(root_tree(st, st[c].parent_hash[1]),
                              root_tree(st, c), root_tree(st, t))

\* The tip is a merged commit of c and t whose root tree holds exactly a.txt as
\* c has it and b.txt as t has it.
merged_both_sides(st, tip, c, t) ==
  /\ Tag(st[tip]) = "MergedCommitV1"
  /\ st[tip].parent_hash1 = c
  /\ st[tip].parent_hash2 = t
  /\ Len(root_tree(st, tip).entries) = 2
  /\ Range(root_tree(st, tip).entries)
       = {get_entry(root_tree(st, c), "a")[1], get_entry(root_tree(st, t), "b")[1]}

\* C21: with master at m2 (a.txt modified since m1) and branch b created at m1
\* carrying one commit that adds b.txt, merging b into master returns Ok without
\* conflict and the merged commit has parents m2 and b's tip and a root tree
\* with exactly a.txt from master and b.txt from b.
C21_MergeWithoutConflict ==
  [][(/\ a_merge_attempt_returns
       /\ get_active_branche(ret'.repo) = "master"
       /\ ret'.name = "b"
       /\ diverged_by_one_commit(store, current_tip, target_tip))
       => /\ ret'.result = "Ok"
          /\ ret'.conflicts = {}
          /\ merged_both_sides(store', tip_after(ret'.repo), current_tip, target_tip)]_vars

\* The root tree of the common base of the two tips.
base_tree_of(st, c, t) == root_tree(st, base(st, c, t)[1])

\* Both sides changed the entry `name`: c # t, c # b and t # b.
both_changed(bt, ct, tt, name) ==
  /\ get_entry_hash(ct, name) # get_entry_hash(tt, name)
  /\ get_entry_hash(ct, name) # get_entry_hash(bt, name)
  /\ get_entry_hash(tt, name) # get_entry_hash(bt, name)

has_kind(tree, name, kind) ==
  IF get_entry(tree, name) = None THEN FALSE ELSE get_entry(tree, name)[1].kind = kind

both_blobs(ct, tt, name) == has_kind(ct, name, "Blob") /\ has_kind(tt, name, "Blob")

\* The text of the entry `name` of a tree, empty when the tree has no such entry.
text_of(st, codec, tree, name) ==
  IF get_entry_hash(tree, name) = None THEN [raw |-> <<>>]
  ELSE get_as_string(st, codec, get_entry_hash(tree, name)[1])[1]

three_way(st, codec, bt, ct, tt, name) ==
  text_merge(text_of(st, codec, bt, name), text_of(st, codec, ct, name),
             text_of(st, codec, tt, name))

\* Both sides changed the Blob `name` and their texts do not merge.
text_conflict(st, codec, bt, ct, tt, name) ==
  /\ both_changed(bt, ct, tt, name)
  /\ both_blobs(ct, tt, name)
  /\ ~three_way(st, codec, bt, ct, tt, name).ok

text_conflicts(st, codec, bt, ct, tt) ==
  {name \in all_filenames(bt, ct, tt) : text_conflict(st, codec, bt, ct, tt, name)}

\* Every entry both sides changed is a Blob on both sides.
only_blobs_changed(bt, ct, tt) ==
  \A name \in all_filenames(bt, ct, tt) :
    both_changed(bt, ct, tt, name) => both_blobs(ct, tt, name)

\* The merged tree's entry `name` is a Blob that is in the store, is a
\* dependency of the merged commit and holds `text`, which carries the markers.
conflict_staged(st, codec, tip, name, text) ==
  /\ has_kind(root_tree(st, tip), name, "Blob")
  /\ exist(st, get_entry_hash(root_tree(st, tip), name)[1])
  /\ get_entry_hash(root_tree(st, tip), name)[1] \in st[tip].dependencies
  /\ get_as_string(st, codec, get_entry_hash(root_tree(st, tip), name)[1]) = Some(text)
  /\ {ConflictOpen, ConflictMid, ConflictClose} \subseteq Range(text.raw)

merged_with_conflicts(st, codec, tip, bt, ct, tt) ==
  \A name \in text_conflicts(store, codec, bt, ct, tt) :
    conflict_staged(st, codec, tip, name, three_way(store, codec, bt, ct, tt, name).text)

has_text_conflict(st, codec, c, t) ==
  /\ base(st, c, t) # None
  /\ only_blobs_changed(base_tree_of(st, c, t), root_tree(st, c), root_tree(st, t))
  /\ text_conflicts(st, codec, base_tree_of(st, c, t), root_tree(st, c), root_tree(st, t)) # {}

\* C22: when current and target both changed the same Blob entry and the
\* three-way text merge reports a conflict (and no entry is in a structural
\* conflict), the merge still returns Ok: the merged commit is created and its
\* tree's entry for that name is a staged blob holding the conflict-marked
\* content, present in the store and recorded in the dependencies.
C22_TextConflictStaged ==
  [][(/\ a_merge_attempt_returns
       /\ has_text_conflict(store, config[ret'.repo], current_tip, target_tip))
       => /\ ret'.result = "Ok"
          /\ Tag(store'[tip_after(ret'.repo)]) = "MergedCommitV1"
          /\ store'[tip_after(ret'.repo)].parent_hash1 = current_tip
          /\ store'[tip_after(ret'.repo)].parent_hash2 = target_tip
          /\ merged_with_conflicts(store', config[ret'.repo], tip_after(ret'.repo),
                                   base_tree_of(store, current_tip, target_tip),
                                   root_tree(store, current_tip),
                                   root_tree(store, target_tip))]_vars

\* A merge has returned Ok with a conflict in a: the tip is a merged commit
\* whose tree gives a the two texts between conflict markers.
C22_Witness ==
  /\ ret.result = "Ok"
  /\ ret.cmd = "merge"
  /\ ret.conflicts = {"a"}
  /\ Tag(store[refs[ret.repo][head[ret.repo]]]) = "MergedCommitV1"
  /\ get_as_string(store, config[ret.repo],
                   get_entry_hash(root_tree(store, refs[ret.repo][head[ret.repo]]), "a")[1])
       \in {Some([raw |-> <<ConflictOpen>> \o x \o <<ConflictMid>> \o y \o <<ConflictClose>>]) :
              x \in {RawB.raw, RawC.raw}, y \in {RawB.raw, RawC.raw}}

(***************************************************************************)
(* Structural conflicts of Tree::merge (SpecMerge).                        *)
(***************************************************************************)
both_trees(ct, tt, name) == has_kind(ct, name, "Tree") /\ has_kind(tt, name, "Tree")

\* Both sides changed `name` and it is not a Blob on both sides nor a Tree on
\* both sides: one side is a Blob and the other a Tree, or one side is absent.
structural_conflict(bt, ct, tt, name) ==
  /\ both_changed(bt, ct, tt, name)
  /\ ~both_blobs(ct, tt, name)
  /\ ~both_trees(ct, tt, name)

\* The subtree `name` of a tree, an empty tree when the entry is not a Tree.
subtree_of(st, tree, name) ==
  IF has_kind(tree, name, "Tree") THEN st[get_entry_hash(tree, name)[1]]
  ELSE Tree(name, <<>>)

\* The names in a structural conflict, in the trees and in the subtrees both
\* sides changed.
RECURSIVE structural_conflicts(_, _, _, _)
structural_conflicts(st, bt, ct, tt) ==
  {name \in all_filenames(bt, ct, tt) : structural_conflict(bt, ct, tt, name)}
    \cup UNION {structural_conflicts(st, subtree_of(st, bt, name), subtree_of(st, ct, name),
                                     subtree_of(st, tt, name)) :
                  name \in {n \in all_filenames(bt, ct, tt) :
                              both_changed(bt, ct, tt, n) /\ both_trees(ct, tt, n)}}

tree_merge_returned == ret.result # "none"

no_root_tree_saved(st) == \A h \in DOMAIN st : ~(IsTree(st[h]) /\ st[h].name = "root")

\* C23: when an entry that current and target both changed (c # t, c # b,
\* t # b) is not a Blob on both sides nor a Tree on both sides - a Blob against
\* a Tree, or absent on one side and modified on the other - Tree::merge returns
\* a MergeConflict error naming such an entry and no merged tree.
C23_StructuralConflict ==
  (/\ tree_merge_returned
   /\ structural_conflicts(MergeStore, ret.base, ret.current, ret.target) # {})
    => /\ ret.result = "Err"
       /\ ret.tree = None
       /\ ret.error \in {MergeConflict(name) :
                           name \in structural_conflicts(MergeStore, ret.base, ret.current,
                                                         ret.target)}
       /\ no_root_tree_saved(store)

\* Tree::merge has failed on d, a Blob in current and a Tree in target, while
\* the entry a merged.
C23_Witness ==
  /\ ret.result = "Err"
  /\ ret.cmd = "merge_trees"
  /\ ret.error = MergeConflict("d")
  /\ has_kind(ret.current, "d", "Blob")
  /\ has_kind(ret.target, "d", "Tree")
  /\ has_kind(ret.base, "d", "Blob")
  /\ get_entry(ret.current, "a") # get_entry(ret.target, "a")

(***************************************************************************)
(* Commit::base and the tips it is given (SpecBranch).                     *)
(***************************************************************************)
is_root(st, hash) == parent_hash(st[hash]) = None

\* hash_a lies on the parent chain of hash_b: hash_b is ahead of hash_a.
is_behind(st, hash_a, hash_b) == hash_a \in Range(parents_hashes(st, hash_b))

base_found_skips_tips(st, hash_a, hash_b, found) ==
  /\ found # Some(hash_a)
  /\ found # Some(hash_b)
  /\ (is_root(st, hash_a) \/ is_root(st, hash_b)) => found = None
  /\ (is_behind(st, hash_a, hash_b) /\ ~is_root(st, hash_a))
       => found = parent_hash(st[hash_a])

base_skips_tips(st, hash_a, hash_b) ==
  base_found_skips_tips(st, hash_a, hash_b, base(st, hash_a, hash_b))

every_base_skips_tips(st, commits) ==
  \A hash_a, hash_b \in commits : base_skips_tips(st, hash_a, hash_b)

\* The last command was a merge and a tip it was given is a root commit.  A
\* merge that fails leaves the refs, and one that succeeds leaves the target's
\* ref and a merged commit, which has parents, at the tip.
merge_of_root_returned ==
  IF ret.result = "none" THEN FALSE
  ELSE /\ ret.cmd = "merge"
       /\ \/ is_root(store, refs[ret.repo][head[ret.repo]])
          \/ is_root(store, refs[ret.repo][ret.name])

\* C36: Commit::base never returns either of its arguments: when the current
\* tip lies on the target tip's parent chain the base is the current tip's
\* parent, and when either tip is a root commit there is no base and the merge
\* is rejected, also when one tip is an ancestor of the other.
C36_BaseSkipsTips ==
  /\ every_base_skips_tips(store, loadable_commits(store))
  /\ merge_of_root_returned
       => (ret.result = "Err" /\ ret.error = [kind |-> "NoCommonBase"])

\* A merge was rejected for want of a base although the current tip, a root
\* commit, is an ancestor of the target tip, and a commit that is not a root
\* has a descendant.
C36_Witness ==
  /\ ret.result = "Err"
  /\ ret.cmd = "merge"
  /\ ret.error = [kind |-> "NoCommonBase"]
  /\ is_root(store, refs[ret.repo][head[ret.repo]])
  /\ is_behind(store, refs[ret.repo][head[ret.repo]], refs[ret.repo][ret.name])
  /\ \E hash_a, hash_b \in loadable_commits(store) :
       is_behind(store, hash_a, hash_b) /\ ~is_root(store, hash_a)

(***************************************************************************)
(* The trees a commit builds from the index (SpecStage).                   *)
(***************************************************************************)
one_entry_per_name(tree) ==
  \A i, j \in DOMAIN tree.entries : tree.entries[i].name = tree.entries[j].name => i = j

\* C37: every tree object built from an index has at most one entry per name,
\* also when a path was staged as a file and, after a directory of the same
\* name replaced it, a file under it was staged before the commit.
C37_OneEntryPerName ==
  \A h \in DOMAIN store : IsTree(store[h]) => one_entry_per_name(store[h])

\* The <<path, content hash>> pairs of the index of repository r.
staged_files(r) ==
  {<<p, entries_before(r)[p].hash>> : p \in DOMAIN entries_before(r)}

\* C38: the root tree of a commit contains exactly the paths staged by the adds
\* since the previous successful commit of the repository, each with the
\* content hash staged last: a path of the parent commit's tree that was not
\* added again is not in the new commit's tree.
C38_TreeIsStagedPaths ==
  [][(a_commit_returns /\ ret'.result = "Ok")
       => /\ tree_files(<<>>, store'[tip_after(ret'.repo)].tree_hash) = staged_files(ret'.repo)
          /\ exist(store', store'[tip_after(ret'.repo)].tree_hash)]_vars

\* The tip names a in its tree no longer, while the tree of its parent does:
\* a was not added again before the second commit.
C38_Witness ==
  /\ ret.result = "Ok"
  /\ ret.cmd = "commit"
  /\ parent_hash(store[refs[ret.repo][head[ret.repo]]]) # None
  /\ <<"a">> \notin {f[1] : f \in tree_files(<<>>, store[refs[ret.repo][head[ret.repo]]].tree_hash)}
  /\ <<"a">> \in {f[1] : f \in tree_files(<<>>,
                       store[parent_hash(store[refs[ret.repo][head[ret.repo]]])[1]].tree_hash)}

(***************************************************************************)
(* The format of the objects a hash is read as (SpecCheckout).             *)
(***************************************************************************)
\* The object under `hash` decodes as a Blob envelope, Normal or Chunked.
reads_as_blob(st, hash) == IF exist(st, hash) THEN IsBlob(st[hash]) ELSE FALSE

\* The object under `hash` is a bare compressed chunk.
reads_as_chunk(st, hash) == IF exist(st, hash) THEN is_compressed(st[hash]) ELSE FALSE

staged_paths ==
  {rp \in Repos \X Paths : IF index[rp[1]] = NoIndex THEN FALSE
                            ELSE rp[2] \in DOMAIN index[rp[1]].entries}

staged_hashes == {index[r].entries[p].hash : <<r, p>> \in staged_paths}

blob_entry_hashes(st) ==
  UNION {{e.hash : e \in {x \in Range(st[h].entries) : x.kind = "Blob"}} :
           h \in {k \in DOMAIN st : IsTree(st[k])}}

chunk_hashes(st) ==
  UNION {Range(st[h].path) : h \in {k \in DOMAIN st : Tag(st[k]) = "ChunksMap"}}

\* C39: every hash used as the content hash of an index entry or as a Blob
\* entry of a tree names an object that decodes as a Blob envelope, and every
\* hash listed in a Chunked blob names a bare compressed chunk, also when the
\* whole content of a small file is a chunk of a large file.
C39_ReadAsWritten ==
  /\ \A h \in staged_hashes \cup blob_entry_hashes(store) : reads_as_blob(store, h)
  /\ \A h \in chunk_hashes(store) : reads_as_chunk(store, h)

(***************************************************************************)
(* The exactness of the garbage collector (Spec).                          *)
(***************************************************************************)
\* The tips of the branches of the repositories whose configuration loads.
live_tips == {refs[r][b] : <<r, b>> \in {rb \in loaded_repos \X Branches : rb[2] \in DOMAIN refs[rb[1]]}}

\* A hash is live when it is a commit on the parent_hash() chain of a live tip
\* or is listed in the dependencies of such a commit.
is_live(st, tips, h) ==
  \E tip \in tips : \E c \in Range(chain(st, tip)) : h = c \/ h \in st[c].dependencies

\* `after` holds exactly the objects of `st` that are live, as they were.
exactly_the_live(st, tips, after) ==
  /\ DOMAIN after = {h \in DOMAIN st : is_live(st, tips, h)}
  /\ \A h \in DOMAIN after : after[h] = st[h]

\* Objects have left the store: gc has returned (no other command deletes).
gc_has_swept == DOMAIN store' # DOMAIN store /\ DOMAIN store' \subseteq DOMAIN store

\* C34: the live set of gc is the union, over the repositories whose
\* configuration loads and their branches, of the commits on the parent_hash()
\* chain from tip to root and of their dependencies lists; when gc returns Ok
\* the store holds exactly the objects it held that are live.
C34_GcExact ==
  /\ [](gc_can_mark(store) => exactly_the_live(store, live_tips, gc_sweep(store)))
  /\ [][gc_has_swept => exactly_the_live(store, live_tips, store')]_vars

\* gc has swept the commits of a deleted repository: a tip of its refs is not
\* in the store, while the chain of every live tip is, with a commit that has
\* a parent among them.
C34_Witness ==
  /\ \E r \in Repos : config[r] = NoConfig /\ \E b \in DOMAIN refs[r] : ~exist(store, refs[r][b])
  /\ gc_can_mark(store)
  /\ \E tip \in live_tips : Len(chain(store, tip)) >= 2

(***************************************************************************)
(* soft-reset (SpecReset).                                                 *)
(***************************************************************************)
a_soft_reset_returns == ret'.cmd = "soft-reset"

\* The commit n applications of parent_hash() away from `tip`, when the chain
\* is that long.
steps_back(st, tip, n) ==
  IF n < Len(chain(st, tip)) THEN Some(chain(st, tip)[n + 1]) ELSE None

\* The ref of the active branch of r now names `hash`; every other ref is kept.
active_ref_set(r, hash) ==
  /\ DOMAIN refs'[r] = DOMAIN refs[r]
  /\ refs'[r][get_active_branche(r)] = hash
  /\ \A b \in DOMAIN refs[r] \ {get_active_branche(r)} : refs'[r][b] = refs[r][b]
  /\ \A q \in Repos \ {r} : refs'[q] = refs[q]

reset_moves_ref(r, n) ==
  IF get_parent_hash(r) = None THEN refs' = refs
  ELSE IF steps_back(store, get_parent_hash(r)[1], n) = None THEN refs' = refs
  ELSE active_ref_set(r, steps_back(store, get_parent_hash(r)[1], n)[1])

\* C35: soft_reset(n) sets the ref of the active branch to the commit n
\* applications of parent_hash() from the tip (parent_hash1 for a merged
\* commit, the tip itself for n = 0) and leaves the ref when the chain has
\* fewer than n parents; the store, the index, HEAD and the other refs are
\* unchanged in every case.
C35_SoftReset ==
  [][a_soft_reset_returns =>
       /\ reset_moves_ref(ret'.repo, ret'.n)
       /\ store' = store
       /\ index' = index
       /\ head' = head]_vars

\* A soft-reset by two has moved the active branch from a merged commit to the
\* parent of its first parent, while the other branch keeps a tip of its own.
C35_Witness ==
  /\ ret.result = "Ok"
  /\ ret.cmd = "soft-reset"
  /\ ret.n = 2
  /\ \E m \in DOMAIN store :
       /\ Tag(store[m]) = "MergedCommitV1"
       /\ steps_back(store, m, 2) = Some(refs[ret.repo][head[ret.repo]])
  /\ \E b \in DOMAIN refs[ret.repo] : refs[ret.repo][b] # refs[ret.repo][head[ret.repo]]

(***************************************************************************)
(* Properties of concurrent writers under SpecRace.                        *)
(***************************************************************************)
\* The writer is between the exists test and the return of put.
is_writing(w) == writers[w].step \in {"create", "write_all"}

\* The puts of a hash that have written it and returned.
written_by(hash) ==
  {w \in Writers : writers[w].step = "returned" /\ writers[w].hash = hash
                     /\ writers[w].wrote}

\* C33.  Concurrent writers of the same hash are safe: two writers that run the
\* exists-then-write steps of put for the same hash at the same time write the
\* same bytes, and a reader gets from a hash no bytes other than those a put
\* that wrote it was called with.
C33_ConcurrentWritersSafe ==
  /\ \A w1, w2 \in Writers :
       (is_writing(w1) /\ is_writing(w2) /\ writers[w1].hash = writers[w2].hash)
         => writers[w1].data = writers[w2].data
  /\ (ret.result = "Ok" /\ ret.cmd = "get"
        /\ written_by(ret.hash) # {} /\ ~ \E w \in Writers : is_writing(w))
       => \A w \in written_by(ret.hash) : ret.data = writers[w].data

(***************************************************************************)
(* Properties of the mounted filesystem under SpecVfs.                     *)
(***************************************************************************)
\* The nodes a readdir of `parent` has added: those of the table with this
\* parent, the root node (its own parent) left out.
children_of(g, parent) ==
  SelectSeq(g.inodes, LAMBDA n : n.parent = parent /\ n.inode # 1)

\* The entries of the tree the node of an inode names.
tree_entries_of(g, st, inode) == st[get_node(g.inodes, inode)[1].entry.hash].entries

\* The table of one mount: the root is inode 1, the IDs are 1, 2, 3, .. in the
\* order the nodes were added and `next` is above them all, no directory is
\* on `loaded` twice, the children of a loaded directory are the entries of its
\* tree, one node each, a directory that is not loaded has no child, and the
\* parent of every node is a node added before it.
inode_table_ok(g, st) ==
  /\ g.inodes[1] = TreeNode(1, 1, TreeEntryTree(".", compute_hash(g.root_tree)))
  /\ \A i \in DOMAIN g.inodes : g.inodes[i].inode = i
  /\ g.next = Len(g.inodes) + 1
  /\ \A i, j \in DOMAIN g.loaded : g.loaded[i] = g.loaded[j] => i = j
  /\ \A p \in Range(g.loaded) :
       /\ get_node(g.inodes, p) # None
       /\ Len(children_of(g, p)) = Len(tree_entries_of(g, st, p))
       /\ \A i \in DOMAIN children_of(g, p) :
            children_of(g, p)[i].entry = tree_entries_of(g, st, p)[i]
  /\ \A i \in DOMAIN g.inodes :
       /\ i # 1 => g.inodes[i].parent < i
       /\ g.inodes[i].parent \in Range(g.loaded) \/ i = 1

\* A readdir has replied.
a_readdir_returns == ret'.result = "Ok" /\ ret'.cmd = "readdir" /\ ret' # ret

\* The table within one mount only grows at its end, and a readdir of a
\* directory whose tree loads leaves the directory loaded.
table_grows ==
  (gatofs.mounted /\ gatofs'.mounted) =>
    /\ SubSeq(gatofs'.inodes, 1, Len(gatofs.inodes)) = gatofs.inodes
    /\ SubSeq(gatofs'.loaded, 1, Len(gatofs.loaded)) = gatofs.loaded
    /\ gatofs'.next >= gatofs.next
    /\ (a_readdir_returns /\ get_node(gatofs.inodes, ret'.ino) # None)
         => (can_load_tree(store, get_node(gatofs.inodes, ret'.ino)[1].entry.hash)
               => ret'.ino \in Range(gatofs'.loaded))

\* C31.  The inode table: the root tree is inode 1; each directory is expanded
\* at most once, on its first readdir; every child of an expanded directory is
\* in the table exactly once; the inode IDs are pairwise distinct, assigned in
\* increasing order from 2 and never reused; the parent of each node is an
\* inode already in the table.
C31_InodeTable ==
  /\ [](gatofs.mounted => inode_table_ok(gatofs, store))
  /\ [][table_grows]_vars

\* Both directories of the mounted tree are expanded, the root before d, and
\* the last call was a readdir of the root, which was expanded already.
C31_Witness ==
  /\ gatofs.mounted
  /\ Len(gatofs.loaded) = 2
  /\ Len(gatofs.inodes) = 4
  /\ ret.result = "Ok"
  /\ ret.cmd = "readdir"
  /\ ret.ino = 1

\* A read has been answered, or has ended the mount.
a_read_returns == ret'.result # "none" /\ ret'.cmd = "read"

\* d[min(offset, |d|) .. min(offset + size, |d|)], positions counted from 0,
\* the end excluded.
byte_window(d, offset, size) ==
  SubSeq(d, (IF offset < Len(d) THEN offset ELSE Len(d)) + 1,
            IF offset + size < Len(d) THEN offset + size ELSE Len(d))

\* The inode is a file whose blob is in the store as a Normal blob.
is_normal_file(g, st, ino) ==
  IF get_node(g.inodes, ino) = None THEN FALSE
  ELSE IF get_node(g.inodes, ino)[1].entry.kind # "Blob" THEN FALSE
  ELSE IF ~ exist(st, get_node(g.inodes, ino)[1].entry.hash) THEN FALSE
  ELSE Tag(st[get_node(g.inodes, ino)[1].entry.hash]) = "Normal"

\* The inode is unknown, a directory, or a file whose blob is Chunked.
is_unreadable(g, st, ino) ==
  IF get_node(g.inodes, ino) = None THEN TRUE
  ELSE IF get_node(g.inodes, ino)[1].entry.kind # "Blob" THEN TRUE
  ELSE IF ~ exist(st, get_node(g.inodes, ino)[1].entry.hash) THEN FALSE
  ELSE Tag(st[get_node(g.inodes, ino)[1].entry.hash]) = "ChunksMap"

\* The content of the file of a Normal blob.
content_of(g, st, ino) == decompress(st[get_node(g.inodes, ino)[1].entry.hash].content).raw

\* C32.  read(inode, offset, size) of a file whose blob is Normal with content d
\* returns d[min(offset, |d|) .. min(offset + size, |d|)]; of a Chunked blob, a
\* directory or an unknown inode it returns an error and no bytes.
C32_ReadResult ==
  [][a_read_returns =>
       /\ is_normal_file(gatofs, store, ret'.ino) =>
            /\ ret'.result = "Ok"
            /\ ret'.data = byte_window(content_of(gatofs, store, ret'.ino),
                                       ret'.offset, ret'.size)
       /\ is_unreadable(gatofs, store, ret'.ino) => ret'.result = "EIO"]_vars

\* A lookup has been answered, or has ended the mount.
a_lookup_returns == ret'.result # "none" /\ ret'.cmd = "lookup"

\* The entries called `name` of the tree the node of `parent` names; none when
\* there is no such node or no such tree.
entries_called(g, st, parent, name) ==
  IF get_node(g.inodes, parent) = None THEN <<>>
  ELSE IF ~ can_load_tree(st, get_node(g.inodes, parent)[1].entry.hash) THEN <<>>
  ELSE SelectSeq(tree_entries_of(g, st, parent), LAMBDA e : e.name = name)

\* The parent has been expanded by a readdir and its tree has an entry called name.
is_listed(g, st, parent, name) ==
  parent \in Range(g.loaded) /\ entries_called(g, st, parent, name) # <<>>

\* C40.  lookup(parent, name) returns the attributes of the child if and only if
\* readdir(parent) has expanded the parent and the parent's tree has an entry
\* called name; it answers not-found otherwise, also for a child of the committed
\* tree whose parent has not been listed; and lookup expands no directory and
\* assigns no inode.
C40_LookupAfterReaddir ==
  [][a_lookup_returns =>
       /\ is_listed(gatofs, store, ret'.parent, ret'.name) =>
            /\ ret'.result = "Ok"
            /\ ret'.attr.ino \in 2..Len(gatofs.inodes)
            /\ gatofs.inodes[ret'.attr.ino].parent = ret'.parent
            /\ gatofs.inodes[ret'.attr.ino].entry
                 = Head(entries_called(gatofs, store, ret'.parent, ret'.name))
       /\ ~ is_listed(gatofs, store, ret'.parent, ret'.name) => ret'.result = "ENOENT"
       /\ gatofs' = gatofs]_vars

====
